---- MODULE Spec2Model ----
(***************************************************************************)
(* A model of the Relay VM bytecode compiler                               *)
(* (src/relay/backend/vm/compiler.cc): the constant pool layout, the       *)
(* per-function lowering to VM instructions and the assembly of the        *)
(* program by CompileModule.                                               *)
(***************************************************************************)
EXTENDS Integers, Sequences, FiniteSets, TLC

(***************************************************************************)
(* Finite maps (std::unordered_map): functions with a finite domain.       *)
(* insert() keeps an entry that is already there.                          *)
(***************************************************************************)
EmptyMap == [x \in {} |-> 0]

MapInsert(m, key, val) == IF key \in DOMAIN m THEN m ELSE m @@ (key :> val)

MapFind(m, key) == key \in DOMAIN m

Range(s) == {s[i] : i \in DOMAIN s}

(***************************************************************************)
(* The IR consumed by the compiler.  Nodes are compared by identity in the *)
(* source (NodeHash / NodeEqual); a Var, a GlobalVar, a Constant, a        *)
(* TensorType and a primitive Function carry the identity as an id.        *)
(***************************************************************************)
TensorType(id, dtype, shape) ==
    [k |-> "TensorType", id |-> id, dtype |-> dtype, shape |-> shape]

TupleType(fields) == [k |-> "TupleType", fields |-> fields]

FuncType == [k |-> "FuncType"]

VarNode(id) == [k |-> "Var", id |-> id]

GlobalVarNode(g) == [k |-> "GlobalVar", g |-> g]

ConstantNode(c) == [k |-> "Constant", c |-> c]

TupleNode(fields) == [k |-> "Tuple", fields |-> fields]

TupleGetItemNode(t, i) == [k |-> "TupleGetItem", tuple |-> t, index |-> i]

LetNode(v, value, body) == [k |-> "Let", var |-> v, value |-> value, body |-> body]

IfNode(c, t, f) == [k |-> "If", cond |-> c, true_branch |-> t, false_branch |-> f]

CallNode(op, args, ty) == [k |-> "Call", op |-> op, args |-> args, checked_type |-> ty]

\* A primitive function: params holds the parameters' checked types.
PrimFunctionNode(id, ptypes) == [k |-> "Function", prim |-> TRUE, id |-> id, params |-> ptypes]

\* A non-primitive function: params holds the parameters' Var ids.
FunctionNode(params, body) == [k |-> "Function", prim |-> FALSE, params |-> params, body |-> body]

ConstructorNode(tag) == [k |-> "Constructor", tag |-> tag]

MatchNode == [k |-> "Match"]

\* An operator node: a callee that is none of the four the compiler lowers.
OpNode == [k |-> "Op"]

(***************************************************************************)
(* The VM instructions (the Instruction factory functions the compiler     *)
(* calls).                                                                 *)
(***************************************************************************)
LoadConst(index, dst) == [op |-> "LoadConst", const_index |-> index, dst |-> dst]

AllocTensor(shape_register, dtype, dst) ==
    [op |-> "AllocTensor", shape_register |-> shape_register, dtype |-> dtype, dst |-> dst]

AllocDatatype(tag, num_fields, fields, dst) ==
    [op |-> "AllocDatatype", tag |-> tag, arity |-> num_fields, fields |-> fields, dst |-> dst]

AllocClosure(func_index, num_freevar, free_vars, dst) ==
    [op |-> "AllocClosure", func_index |-> func_index, arity |-> num_freevar,
     free_vars |-> free_vars, dst |-> dst]

GetField(object, field_index, dst) ==
    [op |-> "GetField", object |-> object, field_index |-> field_index, dst |-> dst]

Invoke(func_index, args, dst) ==
    [op |-> "Invoke", func_index |-> func_index, args |-> args, dst |-> dst]

InvokeClosure(closure, args, dst) ==
    [op |-> "InvokeClosure", closure |-> closure, args |-> args, dst |-> dst]

InvokePacked(packed_index, arity, output_size, args) ==
    [op |-> "InvokePacked", packed_index |-> packed_index, arity |-> arity,
     output_size |-> output_size, packed_args |-> args]

Select(cond, op1, op2, dst) ==
    [op |-> "Select", cond |-> cond, op1 |-> op1, op2 |-> op2, dst |-> dst]

If(cond, true_offset, false_offset) ==
    [op |-> "If", cond |-> cond, true_offset |-> true_offset, false_offset |-> false_offset]

Goto(pc_offset) == [op |-> "Goto", pc_offset |-> pc_offset]

Ret(result) == [op |-> "Ret", result |-> result]

(***************************************************************************)
(* The compile engine: an outside service with a process-wide cache.  Two  *)
(* primitive functions that are structurally equal share one cache key and *)
(* so one lowered kernel: the primitive functions 0 and 1 are such a pair. *)
(***************************************************************************)
CCacheKey(func) == IF func.id <= 1 THEN 0 ELSE func.id

\* The kernel the engine builds for a key it has not cached.
LowerKey(key) == [name |-> key]

\* engine->Lower(key) on the cache `engine`: [engine, kernel].
Lower(engine, func) ==
    LET key == CCacheKey(func)
    IN  IF MapFind(engine, key)
        THEN [engine |-> engine, kernel |-> engine[key]]
        ELSE [engine |-> engine @@ (key :> LowerKey(key)), kernel |-> LowerKey(key)]

\* The lifted-closure test.
IsClosure(func) == func.body.k = "Function"

\* Module::Lookup: the function a global names, in a module given as the
\* sequence of its (global, function) entries in iteration order.
ModuleHas(module, g) == \E i \in DOMAIN module : module[i].gvar = g

Lookup(module, g) == module[CHOOSE i \in DOMAIN module : module[i].gvar = g].func

(***************************************************************************)
(* ConstantPool: the walk that numbers the constants and the shape tensors *)
(* of the primitive calls' outputs.  cp is the visitor object.             *)
(***************************************************************************)
NewConstantPool ==
    [visited |-> {}, const_map |-> EmptyMap, const_tensor_shape_map |-> EmptyMap,
     index |-> 0, err |-> "none"]

\* The shape tensor of a tensor type: its static extents as int64.
GetTensorConstant(ttype) == [dtype |-> "int64", data |-> ttype.shape]

AddConstantTensorShape(cp, expr, value) ==
    IF MapFind(cp.const_tensor_shape_map, expr.id)
    THEN cp
    ELSE [cp EXCEPT !.const_tensor_shape_map = @ @@ (expr.id :> [index |-> cp.index, value |-> value]),
                    !.index = @ + 1]

\* A constant numbered by a counter of const_map's own.
CPVisitConstantOwnCounter(cp, const_node) ==
    IF MapFind(cp.const_map, const_node.c)
    THEN cp
    ELSE [cp EXCEPT !.const_map = @ @@ (const_node.c :> Cardinality(DOMAIN cp.const_map))]

CPVisitConstant(cp, const_node) ==
    IF MapFind(cp.const_map, const_node.c)
    THEN cp
    ELSE [cp EXCEPT !.const_map = @ @@ (const_node.c :> cp.index),
                    !.index = @ + 1]

RECURSIVE AddTupleShapes(_, _, _)
AddTupleShapes(cp, fields, i) ==
    IF i > Len(fields)
    THEN cp
    ELSE AddTupleShapes(AddConstantTensorShape(cp, fields[i], GetTensorConstant(fields[i])),
                        fields, i + 1)

\* What the Call visitor does once the arguments have been visited.
CPCallShapes(cp, call_node) ==
    IF call_node.op.k = "Function"
    THEN LET ret_type == call_node.checked_type
         IN  CASE ret_type.k = "TensorType" ->
                    AddConstantTensorShape(cp, ret_type, GetTensorConstant(ret_type))
               [] ret_type.k = "TupleType" -> AddTupleShapes(cp, ret_type.fields, 1)
               [] OTHER -> cp
    ELSE cp

RECURSIVE CPVisitExpr(_, _, _)
RECURSIVE CPVisitAll(_, _, _)
CPVisitAll(cp, module, es) ==
    IF es = <<>>
    THEN cp
    ELSE CPVisitAll(CPVisitExpr(cp, module, Head(es)), module, Tail(es))

CPVisitGlobalVar(cp, module, gvar) ==
    IF gvar.g \in cp.visited
    THEN cp
    ELSE IF ~ModuleHas(module, gvar.g)
         THEN [cp EXCEPT !.visited = @ \cup {gvar.g}, !.err = "Lookup"]
         ELSE CPVisitExpr([cp EXCEPT !.visited = @ \cup {gvar.g}], module, Lookup(module, gvar.g))

CPVisitCall(cp, module, call_node) ==
    LET after_args == CPVisitAll(cp, module, call_node.args)
    IN  IF after_args.err # "none" THEN after_args ELSE CPCallShapes(after_args, call_node)

\* The dispatch of ExprVisitor: the three overrides above, and the default
\* walk over the children for every other node.
CPVisitExpr(cp, module, e) ==
    IF cp.err # "none" THEN cp ELSE
    CASE e.k = "GlobalVar" -> CPVisitGlobalVar(cp, module, e)
      [] e.k = "Constant" -> CPVisitConstant(cp, e)
      [] e.k = "Call" -> CPVisitCall(cp, module, e)
      [] e.k = "Tuple" -> CPVisitAll(cp, module, e.fields)
      [] e.k = "TupleGetItem" -> CPVisitExpr(cp, module, e.tuple)
      [] e.k = "Let" -> CPVisitAll(cp, module, <<e.value, e.body>>)
      [] e.k = "If" -> CPVisitAll(cp, module, <<e.cond, e.true_branch, e.false_branch>>)
      [] e.k = "Function" /\ ~e.prim -> CPVisitExpr(cp, module, e.body)
      [] OTHER -> cp

RECURSIVE LayoutFrom(_, _, _)
LayoutFrom(cp, module, i) ==
    IF i > Len(module)
    THEN cp
    ELSE LayoutFrom(CPVisitExpr(cp, module, GlobalVarNode(module[i].gvar)), module, i + 1)

LayoutConstantPool(module) == LayoutFrom(NewConstantPool, module, 1)

(***************************************************************************)
(* VMCompiler: the per-function lowering.  c is the compiler object with   *)
(* the shared context it points to; c.err is the fatal error that unwinds  *)
(* the compilation ("none" while there is none).  c.if_log, c.call_log and *)
(* c.prim_log record the local variables of the If, Call and primitive     *)
(* call visitors (positions are 0-based, as in the source).                *)
(***************************************************************************)
\* undef is what a read outside an operand array yields in this compilation.
NewVMCompiler(context, engine, undef) ==
    [instructions |-> <<>>, var_register_map |-> EmptyMap, last_register |-> 0,
     registers_num |-> 0, engine |-> engine, context |-> context, err |-> "none",
     if_log |-> <<>>, call_log |-> <<>>, prim_log |-> <<>>, closure_log |-> <<>>,
     undef |-> undef]

Ok(c) == c.err = "none"

Fatal(c, msg) == IF Ok(c) THEN [c EXCEPT !.err = msg] ELSE c

\* NewRegister returns c.registers_num and leaves the count one larger.
NewRegister(c) == IF Ok(c) THEN [c EXCEPT !.registers_num = @ + 1] ELSE c

DstOps == {"AllocDatatype", "AllocTensor", "GetField", "LoadConst", "Select", "Invoke",
           "AllocClosure", "Move", "InvokeClosure"}

Emit(c, instr) ==
    IF ~Ok(c) THEN c ELSE
    [c EXCEPT !.last_register =
                  IF instr.op \in DstOps THEN instr.dst
                  ELSE IF instr.op = "InvokePacked"
                       THEN IF instr.arity >= 1
                            THEN instr.packed_args[(instr.arity - 1) + 1]
                            ELSE c.undef
                  ELSE @,
              !.instructions = Append(@, instr)]

BindVar(c, v, reg) ==
    IF Ok(c) THEN [c EXCEPT !.var_register_map = MapInsert(@, v, reg)] ELSE c

VisitConstant(c, const_node) ==
    IF ~MapFind(c.context.const_map, const_node.c)
    THEN Fatal(c, "CHECK const_map")
    ELSE Emit(NewRegister(c), LoadConst(c.context.const_map[const_node.c], c.registers_num))

\* A Var lowered into a register of its own.
VisitVarMove(c, var_node) ==
    IF ~Ok(c) THEN c ELSE
    IF ~MapFind(c.var_register_map, var_node.id)
    THEN Fatal(c, "CHECK var_register_map")
    ELSE Emit(NewRegister(c),
              [op |-> "Move", from |-> c.var_register_map[var_node.id], dst |-> c.registers_num])

VisitVar(c, var_node) ==
    IF ~Ok(c) THEN c ELSE
    IF ~MapFind(c.var_register_map, var_node.id)
    THEN Fatal(c, "CHECK var_register_map")
    ELSE [c EXCEPT !.last_register = c.var_register_map[var_node.id]]

VisitMatch(c, match_node) == Fatal(c, "match unsupported")

\* A global in a value position taken for lowered.
VisitGlobalVarAccepted(c, gvar) == c

VisitGlobalVar(c, gvar) == Fatal(c, "Loading GlobalVar into register")

VisitFunction(c, func_node) ==
    IF ~func_node.prim THEN Fatal(c, "local functions should have been removed") ELSE c

\* The AllocTensor built before the LoadConst has set last_register.
AllocTensorFromTypeStale(c, ttype) ==
    LET it == c.context.const_tensor_shape_map
        c1 == IF ~MapFind(it, ttype.id)
              THEN c
              ELSE Emit(NewRegister(c), LoadConst(it[ttype.id].index, c.registers_num))
    IN  [c |-> NewRegister(c1),
         alloc |-> AllocTensor(c.last_register, ttype.dtype, c1.registers_num)]

\* AllocTensorFromType emits the LoadConst at once and hands back the
\* AllocTensor, which the caller emits later: [c, alloc].
AllocTensorFromType(c, ttype) ==
    LET it == c.context.const_tensor_shape_map
        c1 == IF ~MapFind(it, ttype.id)
              THEN c
              ELSE Emit(NewRegister(c), LoadConst(it[ttype.id].index, c.registers_num))
    IN  [c |-> NewRegister(c1),
         alloc |-> AllocTensor(c1.last_register, ttype.dtype, c1.registers_num)]

\* The GetFields of one tuple parameter: [c, regs].
RECURSIVE UnpackTuple(_, _, _, _, _)
UnpackTuple(c, fields, arg_register, f, regs) ==
    IF f >= Len(fields) \/ ~Ok(c)
    THEN [c |-> c, regs |-> regs]
    ELSE IF fields[f + 1].k # "TensorType"
         THEN [c |-> Fatal(c, "only supports non-nested tuples"), regs |-> regs]
         ELSE UnpackTuple(Emit(NewRegister(c), GetField(arg_register, f, c.registers_num)),
                          fields, arg_register, f + 1, Append(regs, c.registers_num))

\* The parameter loop: [c, regs], regs the flattened input registers.
RECURSIVE UnpackArgs(_, _, _, _, _)
UnpackArgs(c, params, args_registers, i, regs) ==
    IF i >= Len(params) \/ ~Ok(c)
    THEN [c |-> c, regs |-> regs]
    ELSE LET ty == params[i + 1]
         IN  CASE ty.k = "TensorType" ->
                    UnpackArgs(c, params, args_registers, i + 1,
                               Append(regs, args_registers[i + 1]))
               [] ty.k = "TupleType" ->
                    LET u == UnpackTuple(c, ty.fields, args_registers[i + 1], 0, regs)
                    IN  UnpackArgs(u.c, params, args_registers, i + 1, u.regs)
               [] OTHER -> [c |-> Fatal(c, "unsupported parameter type"), regs |-> regs]

\* The output loop of a tuple return: [c, allocs].
RECURSIVE AllocFields(_, _, _, _)
AllocFields(c, fields, i, allocs) ==
    IF i >= Len(fields)
    THEN [c |-> c, allocs |-> allocs]
    ELSE LET a == AllocTensorFromType(c, fields[i + 1])
         IN  AllocFields(a.c, fields, i + 1, Append(allocs, a.alloc))

RECURSIVE EmitAll(_, _)
EmitAll(c, instrs) ==
    IF instrs = <<>> THEN c ELSE EmitAll(Emit(c, Head(instrs)), Tail(instrs))

\* Every lowered kernel appended, seen before or not.
KernelIndexNoDedup(c, kernel) ==
    [c |-> [c EXCEPT !.context.lowered_funcs = Append(@, kernel),
                     !.context.seen_funcs =
                         [k \in DOMAIN @ \cup {kernel} |->
                             IF k = kernel THEN Len(c.context.lowered_funcs) ELSE @[k]]],
     op_index |-> Len(c.context.lowered_funcs)]

\* The kernel's index: a new one on first sight. [c, op_index]
KernelIndex(c, kernel) ==
    IF ~MapFind(c.context.seen_funcs, kernel)
    THEN [c |-> [c EXCEPT !.context.lowered_funcs = Append(@, kernel),
                          !.context.seen_funcs =
                              @ @@ (kernel :> Len(c.context.lowered_funcs))],
          op_index |-> Len(c.context.lowered_funcs)]
    ELSE [c |-> c, op_index |-> c.context.seen_funcs[kernel]]

\* The output allocations of a primitive call, not yet emitted: [c, allocs].
AllocOne(one) == [c |-> one.c, allocs |-> <<one.alloc>>]

AllocOutputs(c, ret_type) ==
    IF ~Ok(c) THEN [c |-> c, allocs |-> <<>>] ELSE
    CASE ret_type.k = "TensorType" -> AllocOne(AllocTensorFromType(c, ret_type))
      [] ret_type.k = "TupleType" -> AllocFields(c, ret_type.fields, 0, <<>>)
      [] OTHER -> [c |-> Fatal(c, "Unsupported return value type"), allocs |-> <<>>]

\* EmitInvokePrimitive step by step.  p holds its local variables: p.c the
\* compiler, p.regs the unpacked input registers, p.allocs the output
\* allocations, p.kernel and p.op_index the lowered kernel and its index,
\* p.start, p.before_allocs and p.invoke the positions reached on the way.
PrimUnpacked(c, u, func, args_registers, ret_type) ==
    [c |-> u.c, regs |-> u.regs, func |-> func, ret_type |-> ret_type,
     args |-> args_registers, entry |-> Len(c.instructions),
     start |-> Len(u.c.instructions)]

PrimOutputs(p, a) ==
    [c |-> EmitAll(a.c, a.allocs), regs |-> p.regs, func |-> p.func, ret_type |-> p.ret_type,
     args |-> p.args, entry |-> p.entry,
     start |-> p.start, before_allocs |-> Len(a.c.instructions), allocs |-> a.allocs]

PrimAllocated(p) == PrimOutputs(p, AllocOutputs(p.c, p.ret_type))

PrimKernel(p, cfunc) ==
    [p EXCEPT !.c.engine = cfunc.engine] @@ [kernel |-> cfunc.kernel]

PrimLowered(p) == IF ~Ok(p.c) THEN p ELSE PrimKernel(p, Lower(p.c.engine, p.func))

PrimIndex(p, ki) ==
    [p EXCEPT !.c = ki.c] @@ [op_index |-> ki.op_index, invoke |-> Len(ki.c.instructions)]

PrimIndexed(p) == IF ~Ok(p.c) THEN p ELSE PrimIndex(p, KernelIndex(p.c, p.kernel))

PrimInvoked(p) ==
    IF ~Ok(p.c) THEN p ELSE
    LET in_arity == Len(p.regs)
        return_val_count == Len(p.allocs)
        arity == in_arity + return_val_count
        unpacked_arg_regs == p.regs \o [i \in 1..return_val_count |-> p.allocs[i].dst]
    IN  [p EXCEPT !.c = Emit(@, InvokePacked(p.op_index, arity, return_val_count,
                                             unpacked_arg_regs)),
                  !.regs = unpacked_arg_regs]

\* The bundle made of the first operands, not the last.
PrimBundledInputs(p) ==
    IF ~Ok(p.c) THEN p ELSE
    LET return_val_count == Len(p.allocs)
    IN  IF return_val_count > 1
        THEN [p EXCEPT !.c = Emit(NewRegister(@),
                                  AllocDatatype(0, return_val_count,
                                                SubSeq(p.regs, 1, return_val_count),
                                                @.registers_num))]
        ELSE p

PrimBundled(p) ==
    IF ~Ok(p.c) THEN p ELSE
    LET return_val_count == Len(p.allocs)
        arity == Len(p.regs)
    IN  IF return_val_count > 1
        THEN [p EXCEPT !.c = Emit(NewRegister(@),
                                  AllocDatatype(0, return_val_count,
                                                SubSeq(p.regs, arity - return_val_count + 1, arity),
                                                @.registers_num))]
        ELSE p

PrimLogged(p) ==
    IF ~Ok(p.c) THEN p.c ELSE
    [p.c EXCEPT !.prim_log =
        Append(@, [start |-> p.start, before_allocs |-> p.before_allocs,
                   invoke |-> p.invoke, in_arity |-> Len(p.regs) - Len(p.allocs),
                   ret_type |-> p.ret_type, kernel |-> p.kernel,
                   func |-> p.func, args |-> p.args, entry |-> p.entry,
                   result |-> p.c.last_register,
                   end |-> Len(p.c.instructions)])]

EmitInvokePrimitive(c, func, args_registers, ret_type) ==
    IF ~Ok(c) THEN c ELSE
    IF Len(func.params) # Len(args_registers) THEN Fatal(c, "CHECK_EQ params args") ELSE
    PrimLogged(PrimBundled(PrimInvoked(PrimIndexed(PrimLowered(PrimAllocated(
        PrimUnpacked(c, UnpackArgs(c, func.params, args_registers, 0, <<>>),
                     func, args_registers, ret_type)))))))

RECURSIVE VisitExpr(_, _)

\* A loop "visit each expression, push last_register": [c, regs].
RECURSIVE VisitEach(_, _, _)
VisitEach(c, es, regs) ==
    IF es = <<>> \/ ~Ok(c)
    THEN [c |-> c, regs |-> regs]
    ELSE LET c1 == VisitExpr(c, Head(es))
         IN  VisitEach(c1, Tail(es), Append(regs, c1.last_register))

VisitTuple(c, tuple) ==
    LET v == VisitEach(c, tuple.fields, <<>>)
    IN  Emit(NewRegister(v.c), AllocDatatype(0, Len(tuple.fields), v.regs, v.c.registers_num))

VisitLet(c, let_node) ==
    LET c1 == VisitExpr(c, let_node.value)
    IN  VisitExpr(BindVar(c1, let_node.var, c1.last_register), let_node.body)

VisitTupleGetItem(c, get) ==
    LET c1 == VisitExpr(c, get.tuple)
    IN  Emit(NewRegister(c1), GetField(c1.last_register, get.index, c1.registers_num))

\* The patch of the If and of the Goto once both branches are lowered.
PatchIfGotoShort(c, after_cond, after_true, after_false) ==
    [c EXCEPT !.instructions[after_cond + 1].true_offset = 1,
              !.instructions[after_cond + 1].false_offset = after_true - after_cond,
              !.instructions[(after_true - 1) + 1].pc_offset = after_false - after_true]

PatchIfFalseOntoGoto(c, after_cond, after_true, after_false) ==
    [c EXCEPT !.instructions[after_cond + 1].true_offset = 1,
              !.instructions[after_cond + 1].false_offset = (after_true - 1) - after_cond,
              !.instructions[(after_true - 1) + 1].pc_offset = (after_false - after_true) + 1]

PatchIf(c, after_cond, after_true, after_false) ==
    LET true_offset == 1
        false_offset == after_true - after_cond
    IN  [c EXCEPT !.instructions[after_cond + 1].true_offset = true_offset,
                  !.instructions[after_cond + 1].false_offset = false_offset,
                  !.instructions[(after_true - 1) + 1].pc_offset =
                      (after_false - after_true) + 1]

VisitIf(c, if_node) ==
    LET c1 == VisitExpr(c, if_node.cond)
        cond_register == c1.last_register
        after_cond == Len(c1.instructions)
        c2 == VisitExpr(Emit(c1, If(cond_register, 0, 0)), if_node.true_branch)
        true_register == c2.last_register
        c3 == Emit(c2, Goto(0))
        after_true == Len(c3.instructions)
        c4 == VisitExpr(c3, if_node.false_branch)
        false_register == c4.last_register
        after_false == Len(c4.instructions)
        c5 == [PatchIf(c4, after_cond, after_true, after_false)
                  EXCEPT !.if_log = Append(@, [if_pc |-> Len(c1.instructions),
                                               goto_pc |-> Len(c2.instructions),
                                               after_cond |-> after_cond,
                                               after_true |-> after_true,
                                               after_false |-> after_false])]
    IN  IF ~Ok(c4) THEN c4
        ELSE Emit(NewRegister(c5),
                  Select(cond_register, true_register, false_register, c5.registers_num))

\* A closure allocated with the arity of its inner function.
ClosureArityInner(func) == Len(func.body.params)

\* The arity of the closure allocated for a call of `func`.
ClosureArity(func) == Len(func.params)

VisitCall(c, call_node) ==
    LET v == VisitEach(c, call_node.args, <<>>)
        args_registers == v.regs
        op == call_node.op
        c1 == v.c
    IN  IF ~Ok(c1) THEN c1 ELSE
        CASE op.k = "Function" ->
               IF ~op.prim THEN Fatal(c1, "CHECK IsPrimitive")
               ELSE EmitInvokePrimitive(c1, op, args_registers, call_node.checked_type)
          [] op.k = "GlobalVar" ->
               IF ~MapFind(c1.context.global_map, op.g) THEN Fatal(c1, "CHECK global_map")
               ELSE IF ~ModuleHas(c1.context.module, op.g) THEN Fatal(c1, "Lookup")
               ELSE LET func == Lookup(c1.context.module, op.g)
                        index == c1.context.global_map[op.g]
                        logged == [c1 EXCEPT !.call_log =
                                      Append(@, [pc |-> Len(c1.instructions), g |-> op.g,
                                                 call |-> call_node,
                                                 args |-> args_registers])]
                    IN  IF IsClosure(func)
                        THEN Emit(NewRegister(logged),
                                  AllocClosure(index, ClosureArity(func), args_registers,
                                               c1.registers_num))
                        ELSE Emit(NewRegister(logged),
                                  Invoke(index, args_registers, c1.registers_num))
          [] op.k = "Constructor" ->
               Emit(NewRegister(c1),
                    AllocDatatype(op.tag, Len(call_node.args), args_registers, c1.registers_num))
          [] op.k = "Var" ->
               LET c2 == VisitExpr(c1, op)
               IN  Emit(NewRegister([c2 EXCEPT !.closure_log =
                                        Append(@, [pc |-> Len(c2.instructions),
                                                   call |-> call_node,
                                                   args |-> args_registers])]),
                        InvokeClosure(c2.last_register, args_registers, c2.registers_num))
          [] OTHER -> Fatal(c1, "unsupported case in vm compiler")

VisitExpr(c, e) ==
    IF ~Ok(c) THEN c ELSE
    CASE e.k = "Constant" -> VisitConstant(c, e)
      [] e.k = "Var" -> VisitVar(c, e)
      [] e.k = "Tuple" -> VisitTuple(c, e)
      [] e.k = "Match" -> VisitMatch(c, e)
      [] e.k = "Let" -> VisitLet(c, e)
      [] e.k = "TupleGetItem" -> VisitTupleGetItem(c, e)
      [] e.k = "GlobalVar" -> VisitGlobalVar(c, e)
      [] e.k = "If" -> VisitIf(c, e)
      [] e.k = "Call" -> VisitCall(c, e)
      [] e.k = "Function" -> VisitFunction(c, e)
      [] OTHER -> Fatal(c, "no visitor")

\* Bind params[i+1..] to fresh registers, which CHECK_EQ requires to be i, i+1, ...
RECURSIVE BindParams(_, _, _)
BindParams(c, params, i) ==
    IF params = <<>> \/ ~Ok(c)
    THEN c
    ELSE IF c.registers_num # i
         THEN Fatal(c, "CHECK_EQ arg_register")
         ELSE BindParams(BindVar(NewRegister(c), Head(params), c.registers_num),
                         Tail(params), i + 1)

\* The captured variables bound before the inner parameters.
CompileClosureOuterFirst(c, func) ==
    LET inner_func == func.body
        c1 == BindParams(c, func.params, 0)
        c2 == BindParams(c1, inner_func.params, Len(func.params))
    IN  VisitExpr(c2, inner_func.body)

CompileClosure(c, func) ==
    LET inner_func == func.body
        c1 == BindParams(c, inner_func.params, 0)
        c2 == BindParams(c1, func.params, Len(inner_func.params))
    IN  VisitExpr(c2, inner_func.body)

Compile(c, func) ==
    IF IsClosure(func)
    THEN CompileClosure(c, func)
    ELSE VisitExpr(BindParams(c, func.params, 0), func.body)

VMFunction(name, params, instructions, register_file_size) ==
    [name |-> name, params |-> params, instructions |-> instructions,
     register_file_size |-> register_file_size]

\* CompileFunc: [compiler, vm_func]; vm_func is returned only if compiler.err = "none".
Finished(compiler, var, func) ==
    LET params == Len(func.params)
        instructions == Append(compiler.instructions, Ret(compiler.last_register))
    IN  [compiler |-> compiler,
         vm_func |-> IF IsClosure(func)
                     THEN VMFunction(var, params + Len(func.body.params), instructions,
                                     compiler.registers_num)
                     ELSE VMFunction(var, params, instructions, compiler.registers_num)]

CompileFunc(context, engine, var, func, undef) ==
    Finished(Compile(NewVMCompiler(context, engine, undef), func), var, func)

(***************************************************************************)
(* The inputs: modules as OptimizeModule leaves them, given as the         *)
(* sequence of their (global, function) entries in iteration order.        *)
(***************************************************************************)
MaxDepth == 2

T0 == TensorType(0, "float32", <<4>>)

T1 == TensorType(1, "int32", <<2, 3>>)

P0 == PrimFunctionNode(0, <<T0>>)

P1 == PrimFunctionNode(1, <<T0>>)

P2 == PrimFunctionNode(2, <<T0, T1>>)

P3 == PrimFunctionNode(3, <<TupleType(<<T0, T1>>)>>)

\* A kernel of no inputs, and the type of a kernel that returns no tensor.
P4 == PrimFunctionNode(4, <<>>)

Unit == TupleType(<<>>)

\* What the read of an operand that does not exist may yield.
Undefined == {0, 9}

\* The leaves: parameters 0..2, a variable nothing binds unless a Let does,
\* constants, and the three nodes the compiler has no lowering for.
\* A function literal that lambda lifting has left in place.
Local == FunctionNode(<<>>, ConstantNode(0))

Atoms(g) ==
    {VarNode(0), VarNode(1), VarNode(2), VarNode(3), ConstantNode(0), ConstantNode(1),
     P0, GlobalVarNode(g), MatchNode, Local}

\* The compound expressions with h as one (or both) of the children.
Around(h, g) ==
    {IfNode(h, VarNode(1), ConstantNode(0)), IfNode(VarNode(0), h, h)}
    \cup {IfNode(VarNode(0), h, s) : s \in {VarNode(1), ConstantNode(0)}}
    \cup {IfNode(VarNode(0), s, h) : s \in {VarNode(1), ConstantNode(0)}}
    \cup {LetNode(3, h, VarNode(3)), LetNode(3, ConstantNode(0), h), LetNode(0, h, VarNode(0))}
    \cup {TupleNode(<<h>>), TupleNode(<<VarNode(1), h>>), TupleGetItemNode(h, 1)}
    \cup {CallNode(P0, <<h>>, T0), CallNode(P1, <<h>>, T1),
          CallNode(P2, <<VarNode(0), h>>, TupleType(<<T0, T1>>)),
          CallNode(P3, <<h>>, TupleType(<<T0, T0>>)),
          CallNode(P0, <<h>>, Unit),
          CallNode(GlobalVarNode(g), <<h>>, T0),
          CallNode(ConstructorNode(2), <<VarNode(0), h>>, T0),
          CallNode(VarNode(1), <<h>>, T0),
          CallNode(OpNode, <<h>>, T0)}

RECURSIVE Exprs(_, _)
Exprs(d, g) ==
    IF d = 0
    THEN Atoms(g)
    ELSE Exprs(d - 1, g) \cup UNION {Around(h, g) : h \in Exprs(d - 1, g)}

Entry(g, func) == [gvar |-> g, func |-> func]

\* The bodies of a top-level function that is no closure.
Bodies(d, g) == {b \in Exprs(d, g) : b.k # "Function"}

\* The bodies of a second function, and of a lifted closure's inner function.
AuxBodies ==
    {VarNode(0), VarNode(1), ConstantNode(1), CallNode(P1, <<VarNode(0)>>, T1),
     CallNode(P2, <<VarNode(0), VarNode(1)>>, T0),
     CallNode(GlobalVarNode("main"), <<VarNode(0)>>, T0),
     CallNode(P0, <<ConstantNode(1)>>, TupleType(<<T1, T0>>)),
     CallNode(P2, <<VarNode(0), CallNode(P0, <<VarNode(1)>>, T1)>>, T0)}

\* The second function: plain, or a closure with the captured variables as
\* its own parameters and the arguments as the inner function's.
AuxFuncs ==
    {FunctionNode(<<0, 1>>, b) : b \in AuxBodies}
    \cup {FunctionNode(outer, FunctionNode(inner, b)) :
            outer \in {<<>>, <<0>>, <<0, 1>>},
            inner \in {<<>>, <<2>>, <<2, 3>>},
            b \in {VarNode(0), VarNode(2), VarNode(3),
                   CallNode(P2, <<VarNode(0), VarNode(2)>>, T0)}}

\* A closure made of two captured values and applied through the variable
\* that names it.
ClosureUses ==
    {LetNode(3, CallNode(GlobalVarNode("aux"), <<VarNode(0), VarNode(1)>>, T0),
             CallNode(VarNode(3), <<VarNode(2), VarNode(0)>>, T0))}

\* The modules compiled: one function of three parameters, which may call
\* itself; one function of no parameters; two functions, in either
\* iteration order.
IsInput(m) ==
    \/ \E h \in Exprs(MaxDepth - 1, "main") : \E b \in {h} \cup Around(h, "main") :
          /\ b.k # "Function"
          /\ m = <<Entry("main", FunctionNode(<<0, 1, 2>>, b))>>
    \/ \E b \in Bodies(MaxDepth - 1, "main")
                  \cup {TupleNode(<<>>), CallNode(P0, <<>>, T0), CallNode(P4, <<>>, T0),
                        CallNode(P4, <<>>, Unit),
                        TupleNode(<<ConstantNode(0), CallNode(P4, <<>>, Unit)>>)} :
          m = <<Entry("main", FunctionNode(<<>>, b))>>
    \/ \E b \in Bodies(1, "aux") \cup ClosureUses, f \in AuxFuncs :
          \/ m = <<Entry("main", FunctionNode(<<0, 1, 2>>, b)), Entry("aux", f)>>
          \/ m = <<Entry("aux", f), Entry("main", FunctionNode(<<0, 1, 2>>, b))>>

(***************************************************************************)
(* CompileModule as a state machine.                                       *)
(***************************************************************************)
VARIABLES
    mod,          \* the module being compiled (after OptimizeModule)
    pc,           \* the place CompileModule has reached
    context,      \* VMCompilerContext
    vm,           \* the VirtualMachine being filled
    todo,         \* the map entries the running fill loop has not reached yet
    it,           \* how many functions the compile loop has passed
    compilers,    \* the VMCompiler objects of the functions compiled so far
    writes,       \* how often each slot of vm.constants has been assigned
    engine,       \* the cache of CompileEngine::Global()
    run,          \* the number of the CompileModule call
    prev          \* the programs the earlier calls returned

\* The state of the LLVM codegen module (src/codegen/llvm/llvm_module.cc).
VARIABLES
    node,         \* the LLVMModuleNode that get_function is called on
    loaded,       \* the LLVMModuleNode that load_ir has made
    threads,      \* the threads calling get_function: where each one is
    fs,           \* the files: path -> content
    jit           \* the execution engine's side and the locals of LazyInitJIT

compiler_vars == <<mod, pc, context, vm, todo, it, compilers, writes, engine, run, prev>>

codegen_vars == <<node, loaded, threads, fs, jit>>

vars == <<mod, pc, context, vm, todo, it, compilers, writes, engine, run, prev,
          node, loaded, threads, fs, jit>>

\* A null pointer.
NullPtr == [null |-> TRUE]

\* An LLVMModuleNode as its constructor leaves it (the member initialisers).
NewLLVMModuleNode ==
    [target_ |-> <<>>, entry_func_ |-> "", mutex_ |-> 0, ee_ |-> NullPtr,
     mptr_ |-> NullPtr, tm_ |-> NullPtr, module_ |-> "null"]

\* No codegen module is in use while CompileModule runs.
NoCodegen ==
    /\ node = NewLLVMModuleNode
    /\ loaded = NewLLVMModuleNode
    /\ threads = <<>>
    /\ fs = EmptyMap
    /\ jit = NullPtr

MaxRuns == 2

NullObject == [null |-> TRUE]

NewContext(module) ==
    [module |-> module, global_map |-> EmptyMap, const_map |-> EmptyMap,
     const_tensor_shape_map |-> EmptyMap, lowered_funcs |-> <<>>, seen_funcs |-> EmptyMap]

NewVirtualMachine ==
    [functions |-> <<>>, constants |-> <<>>, packed_funcs |-> <<>>, global_map_ |-> EmptyMap]

\* The locals of a CompileModule call at its start.
Enter(module) ==
    /\ pc' = "PopulateGlobalMap"
    /\ context' = NewContext(module)
    /\ vm' = NewVirtualMachine
    /\ todo' = {}
    /\ it' = 0
    /\ compilers' = <<>>
    /\ writes' = <<>>

Init ==
    /\ IsInput(mod)
    /\ pc = "PopulateGlobalMap"
    /\ context = NewContext(mod)
    /\ vm = NewVirtualMachine
    /\ todo = {}
    /\ it = 0
    /\ compilers = <<>>
    /\ writes = <<>>
    /\ engine = EmptyMap
    /\ run = 1
    /\ prev = <<>>
    /\ NoCodegen

\* A fatal error unwinds CompileModule: its locals are gone.
Abort ==
    /\ pc' = "aborted"
    /\ context' = NewContext(mod)
    /\ vm' = NewVirtualMachine
    /\ todo' = {}
    /\ writes' = <<>>

\* Indices counted from one.
RECURSIVE GlobalMapFromOne(_, _, _)
GlobalMapFromOne(global_map, module, global_index) ==
    IF global_index >= Len(module)
    THEN global_map
    ELSE GlobalMapFromOne(MapInsert(global_map, module[global_index + 1].gvar, global_index + 1),
                          module, global_index + 1)

RECURSIVE GlobalMapFrom(_, _, _)
GlobalMapFrom(global_map, module, global_index) ==
    IF global_index >= Len(module)
    THEN global_map
    ELSE GlobalMapFrom(MapInsert(global_map, module[global_index + 1].gvar, global_index),
                       module, global_index + 1)

PopulateGlobalMap ==
    /\ pc = "PopulateGlobalMap"
    /\ context' = [context EXCEPT !.global_map = GlobalMapFrom(@, mod, 0)]
    /\ pc' = "LayoutConstantPool"
    /\ UNCHANGED <<codegen_vars, mod, vm, todo, it, compilers, writes, engine, run, prev>>

StoreLayout(cp) ==
    IF cp.err # "none"
    THEN Abort
    ELSE /\ context' = [context EXCEPT !.const_map = cp.const_map,
                                       !.const_tensor_shape_map = cp.const_tensor_shape_map]
         /\ pc' = "resize"
         /\ UNCHANGED <<vm, todo, writes>>

LayoutConstants ==
    /\ pc = "LayoutConstantPool"
    /\ StoreLayout(LayoutConstantPool(mod))
    /\ UNCHANGED <<codegen_vars, mod, it, compilers, engine, run, prev>>

Resize ==
    /\ pc = "resize"
    /\ LET size == Cardinality(DOMAIN context.const_map)
                   + Cardinality(DOMAIN context.const_tensor_shape_map)
       IN  /\ vm' = [vm EXCEPT !.functions = [i \in 1..Len(mod) |-> NullObject],
                               !.constants = [i \in 1..size |-> NullObject]]
           /\ writes' = [i \in 1..size |-> 0]
    /\ todo' = DOMAIN context.const_map
    /\ pc' = "fill const_map"
    /\ UNCHANGED <<codegen_vars, mod, context, it, compilers, engine, run, prev>>

\* One round of the loop over const_map, whose order is the hash table's.
StoreConstant ==
    /\ pc = "fill const_map"
    /\ \E konst \in todo :
        LET index == context.const_map[konst]
        IN  /\ vm' = [vm EXCEPT !.constants[index + 1] = [tensor |-> [data |-> konst]]]
            /\ writes' = [writes EXCEPT ![index + 1] = @ + 1]
            /\ todo' = todo \ {konst}
    /\ UNCHANGED <<codegen_vars, mod, pc, context, it, compilers, engine, run, prev>>

ConstantsStored ==
    /\ pc = "fill const_map"
    /\ todo = {}
    /\ todo' = DOMAIN context.const_tensor_shape_map
    /\ pc' = "fill const_tensor_shape_map"
    /\ UNCHANGED <<codegen_vars, mod, context, vm, it, compilers, writes, engine, run, prev>>

\* One round of the loop over const_tensor_shape_map.
StoreShape ==
    /\ pc = "fill const_tensor_shape_map"
    /\ \E ttype \in todo :
        LET pair == context.const_tensor_shape_map[ttype]
        IN  /\ vm' = [vm EXCEPT !.constants[pair.index + 1] = [tensor |-> pair.value]]
            /\ writes' = [writes EXCEPT ![pair.index + 1] = @ + 1]
            /\ todo' = todo \ {ttype}
    /\ UNCHANGED <<codegen_vars, mod, pc, context, it, compilers, engine, run, prev>>

ShapesStored ==
    /\ pc = "fill const_tensor_shape_map"
    /\ todo = {}
    /\ pc' = "compile"
    /\ UNCHANGED <<codegen_vars, mod, context, vm, todo, it, compilers, writes, engine, run, prev>>

\* The compiled function r stored at func_index.
StoreFunction(r, func_index) ==
    /\ engine' = r.compiler.engine
    /\ compilers' = Append(compilers, [r.compiler EXCEPT !.context = {}, !.engine = {}, !.undef = {}])
    /\ IF r.compiler.err # "none" \/ func_index >= Len(vm.functions)
       THEN Abort
       ELSE /\ context' = r.compiler.context
            /\ vm' = [vm EXCEPT !.functions[func_index + 1] = r.vm_func]
            /\ pc' = "compile"
            /\ UNCHANGED <<todo, writes>>

\* One round of the loop over the module's functions.
CompileNext ==
    /\ pc = "compile"
    /\ it < Len(mod)
    /\ \E undef \in Undefined :
          StoreFunction(CompileFunc(context, engine, mod[it + 1].gvar, mod[it + 1].func, undef),
                        context.global_map[mod[it + 1].gvar])
    /\ it' = it + 1
    /\ UNCHANGED <<codegen_vars, mod, run, prev>>

PopulatePackedFuncMap ==
    /\ pc = "compile"
    /\ it = Len(mod)
    /\ vm' = [vm EXCEPT !.packed_funcs =
                 [i \in 1..Len(context.lowered_funcs) |->
                     [packed |-> context.lowered_funcs[i].name]]]
    /\ pc' = "global_map_"
    /\ UNCHANGED <<codegen_vars, mod, context, todo, it, compilers, writes, engine, run, prev>>

\* The name -> index map, and the return of vm.
Return ==
    /\ pc = "global_map_"
    /\ vm' = [vm EXCEPT !.global_map_ = context.global_map]
    /\ pc' = "done"
    /\ UNCHANGED <<codegen_vars, mod, context, todo, it, compilers, writes, engine, run, prev>>

Next ==
    \/ PopulateGlobalMap
    \/ LayoutConstants
    \/ Resize
    \/ StoreConstant
    \/ ConstantsStored
    \/ StoreShape
    \/ ShapesStored
    \/ CompileNext
    \/ PopulatePackedFuncMap
    \/ Return

Spec == Init /\ [][Next]_vars

\* A second call of CompileModule on the same module, in the same process.
CompileAgain ==
    /\ pc = "done"
    /\ run < MaxRuns
    /\ run' = run + 1
    /\ prev' = Append(prev, vm)
    /\ Enter(mod)
    /\ UNCHANGED <<codegen_vars, mod, engine>>

NextAgain == Next \/ CompileAgain

SpecAgain == Init /\ [][NextAgain]_vars

(***************************************************************************)
(* CompileFunc called for the functions of a module by a caller that has   *)
(* built the context itself: the global map and the constant map are      *)
(* those CompileModule builds, the shape map holds any part of the         *)
(* entries of the module's output types.                                   *)
(***************************************************************************)
\* The map m without the keys outside keep.
Restrict(m, keep) == [x \in DOMAIN m \cap keep |-> m[x]]

ContextWith(module, cp, keep) ==
    [NewContext(module) EXCEPT !.global_map = GlobalMapFrom(@, module, 0),
                               !.const_map = cp.const_map,
                               !.const_tensor_shape_map =
                                   Restrict(cp.const_tensor_shape_map, keep)]

InitCompileFunc ==
    /\ IsInput(mod)
    /\ LayoutConstantPool(mod).err = "none"
    /\ \E keep \in SUBSET {T0.id, T1.id} :
          context = ContextWith(mod, LayoutConstantPool(mod), keep)
    /\ pc = "compile"
    /\ vm = [NewVirtualMachine EXCEPT !.functions = [i \in 1..Len(mod) |-> NullObject]]
    /\ todo = {}
    /\ it = 0
    /\ compilers = <<>>
    /\ writes = <<>>
    /\ engine = EmptyMap
    /\ run = 1
    /\ prev = <<>>
    /\ NoCodegen

SpecCompileFunc == InitCompileFunc /\ [][CompileNext]_vars

(***************************************************************************)
(* The LLVM codegen module: LLVMModuleNode.  A target string is the        *)
(* sequence of its blank-separated words; an IR file is the sequence of    *)
(* its top-level entities.                                                 *)
(***************************************************************************)
HostTriple == "x86_64-unknown-linux-gnu"

\* The word after the last "-target", "" if there is none.
RECURSIVE TripleOf(_, _)
TripleOf(target, found) ==
    IF Len(target) < 2
    THEN found
    ELSE TripleOf(Tail(target), IF Head(target) = "-target" THEN target[2] ELSE found)

\* The last word of `target` among `options`, "" if there is none.
RECURSIVE OptionOf(_, _, _)
OptionOf(target, options, found) ==
    IF target = <<>>
    THEN found
    ELSE OptionOf(Tail(target), options, IF Head(target) \in options THEN Head(target) ELSE found)

McpuOptions == {"-mcpu=core-avx2", "-mcpu=cortex-a53"}

MattrOptions == {"-mattr=+neon"}

ParseLLVMTargetOptions(target) ==
    [triple |-> TripleOf(target, ""),
     mcpu |-> OptionOf(target, McpuOptions, ""),
     mattr |-> OptionOf(target, MattrOptions, "")]

\* The target machine of a target string: the host's triple by default.
GetLLVMTargetMachine(target) ==
    LET options == ParseLLVMTargetOptions(target)
    IN  [options EXCEPT !.triple = IF @ = "" THEN HostTriple ELSE @]

\* The module that CodeGenLLVM hands back: the functions added, the startup
\* function of a system library and the global naming the entry function.
\* The architecture and the data layout LLVM has for a triple.
ArchOf(triple) ==
    CASE triple \in {"x86_64-unknown-linux-gnu", "x86_64-linux-gnu"} -> "x86_64"
      [] triple = "armv7l-linux-gnueabihf" -> "arm"
      [] OTHER -> "aarch64"

LayoutOf(triple) ==
    CASE ArchOf(triple) = "x86_64" -> "e-m:e-i64:64-f80:128-n8:16:32:64-S128"
      [] ArchOf(triple) = "arm" -> "e-m:e-p:32:32-i64:64-v128:64:128-a:0:32-n32-S64"
      [] OTHER -> "e-m:e-i8:8:32-i16:16:32-i64:64-i128:128-n32:64-S128"

CodeGenFinish(funcs, tm, system_lib) ==
    [triple |-> tm.triple,
     layout |-> LayoutOf(tm.triple),
     functions |-> funcs \o (IF system_lib THEN <<"__tvm_module_startup">> ELSE <<>>),
     globals |-> <<[name |-> "__tvm_main__", val |-> <<funcs[1]>>]>>,
     flags |-> <<>>]

addModuleFlag(module, key, val) ==
    [module EXCEPT !.flags = Append(@, [name |-> key, val |-> val])]

\* [found, val]: the value of the first flag named key.
getModuleFlag(module, key) ==
    LET hits == SelectSeq(module.flags, LAMBDA f : f.name = key)
    IN  IF hits = <<>> THEN [found |-> FALSE, val |-> <<>>]
        ELSE [found |-> TRUE, val |-> hits[1].val]

\* Module::print: one entity per line.
Entities(kind, items) ==
    [i \in 1..Len(items) |-> [kind |-> kind, name |-> items[i].name, val |-> items[i].val]]

PrintIR(module) ==
    <<[kind |-> "target triple", name |-> "", val |-> <<module.triple>>],
      [kind |-> "target datalayout", name |-> "", val |-> <<module.layout>>]>>
    \o [i \in 1..Len(module.functions) |->
           [kind |-> "define", name |-> module.functions[i], val |-> <<>>]]
    \o Entities("global", module.globals)
    \o Entities("flag", module.flags)

\* parseIRFile.
Parsed(text, kind) ==
    LET lines == SelectSeq(text, LAMBDA l : l.kind = kind)
    IN  [i \in 1..Len(lines) |-> [name |-> lines[i].name, val |-> lines[i].val]]

ParseIR(text) ==
    [triple |-> Parsed(text, "target triple")[1].val[1],
     layout |-> Parsed(text, "target datalayout")[1].val[1],
     functions |-> [i \in 1..Len(Parsed(text, "define")) |-> Parsed(text, "define")[i].name],
     globals |-> Parsed(text, "global"),
     flags |-> Parsed(text, "flag")]

\* LLVMModuleNode::Init.
InitModule(n, funcs, target) ==
    LET tm == GetLLVMTargetMachine(target)
        system_lib == \E i \in DOMAIN target : target[i] = "-system-lib"
        module == CodeGenFinish(funcs, tm, system_lib)
    IN  [n EXCEPT !.tm_ = tm,
                  !.entry_func_ = funcs[1],
                  !.module_ = "owned",
                  !.mptr_ = addModuleFlag(addModuleFlag(addModuleFlag(module,
                                "tvm_target", target),
                                "Debug Info Version", <<"3">>),
                                "Dwarf Version", <<"2">>),
                  !.target_ = target]

\* LLVMModuleNode::LoadIR: the target string is put into a local variable
\* named target_, the member of that name keeps its value.
LoadIR(n, text) ==
    LET module == ParseIR(text)
        mtarget == getModuleFlag(module, "tvm_target")
        target_ == IF mtarget.found THEN mtarget.val
                   ELSE <<"llvm", "-target", module.triple>>
    IN  [n EXCEPT !.module_ = "owned",
                  !.mptr_ = module,
                  !.tm_ = GetLLVMTargetMachine(target_)]

Targets ==
    {<<"llvm">>, <<"llvm", "-mcpu=core-avx2">>, <<"llvm", "-system-lib">>,
     <<"llvm", "-target", "armv7l-linux-gnueabihf", "-mcpu=cortex-a53", "-mattr=+neon">>,
     <<"llvm", "-target", "x86_64-linux-gnu">>}

FuncNames == {"f", "g", "h"}

\* The lists of lowered functions a module is built from: not empty.
FuncLists ==
    {funcs \in UNION {[1..n -> FuncNames] : n \in 1..3} :
        \A i, j \in DOMAIN funcs : i # j => funcs[i] # funcs[j]}

\* An IR file written by another tool: it has no tvm_target flag.
ForeignIR ==
    PrintIR([triple |-> "aarch64-linux-gnu", layout |-> LayoutOf("aarch64-linux-gnu"),
             functions |-> <<"k">>, globals |-> <<>>, flags |-> <<>>])

WriteFile(files, path, content) ==
    [x \in DOMAIN files \cup {path} |-> IF x = path THEN content ELSE files[x]]

NoCompiler ==
    /\ mod = <<>>
    /\ pc = "done"
    /\ context = NewContext(<<>>)
    /\ vm = NewVirtualMachine
    /\ todo = {}
    /\ it = 0
    /\ compilers = <<>>
    /\ writes = <<>>
    /\ engine = EmptyMap
    /\ run = 1
    /\ prev = <<>>

InitRoundTrip ==
    /\ NoCompiler
    /\ node = NewLLVMModuleNode
    /\ loaded = NewLLVMModuleNode
    /\ threads = <<>>
    /\ fs = WriteFile(EmptyMap, "foreign.ll", ForeignIR)
    /\ jit = [loaded_from |-> ""]

\* codegen.build_llvm.
Build ==
    /\ node.mptr_ = NullPtr
    /\ \E funcs \in FuncLists, target \in Targets :
          node' = InitModule(node, funcs, target)
    /\ UNCHANGED <<compiler_vars, loaded, threads, fs, jit>>

\* SaveToFile with the format "ll".
SaveToFile ==
    /\ node.mptr_ # NullPtr
    /\ ~MapFind(fs, "module.ll")
    /\ fs' = WriteFile(fs, "module.ll", PrintIR(node.mptr_))
    /\ UNCHANGED <<compiler_vars, node, loaded, threads, jit>>

\* module.loadfile_ll.
LoadFile ==
    /\ loaded.mptr_ = NullPtr
    /\ \E file_name \in DOMAIN fs :
          /\ loaded' = LoadIR(loaded, fs[file_name])
          /\ jit' = [jit EXCEPT !.loaded_from = file_name]
    /\ UNCHANGED <<compiler_vars, node, threads, fs>>

NextRoundTrip == Build \/ SaveToFile \/ LoadFile

SpecRoundTrip == InitRoundTrip /\ [][NextRoundTrip]_vars

(***************************************************************************)
(* get_function called by several threads on one built module, with the   *)
(* lazy initialisation of the JIT and the profiler map it writes.  Text    *)
(* written to a stream is the sequence of the strings and digits written.  *)
(***************************************************************************)
MaxCalls == 2

MaxSymbols == 2

Threads == {1, 2}

Digits == <<"0", "1", "2", "3", "4", "5", "6", "7", "8", "9", "a", "b", "c", "d", "e", "f">>

\* The digits of n to the base `base`.
RECURSIVE ToBase(_, _)
ToBase(n, base) ==
    IF n < base
    THEN <<Digits[n + 1]>>
    ELSE Append(ToBase(n \div base, base), Digits[(n % base) + 1])

\* An output stream: integers are written to the base the stream is set to,
\* which std::hex changes for everything written after it.
NewStream == [open |-> FALSE, base |-> 10, buffer |-> <<>>]

StreamStr(stream, str) == [stream EXCEPT !.buffer = Append(@, str)]

StreamInt(stream, n) == [stream EXCEPT !.buffer = @ \o ToBase(n, stream.base)]

StreamHex(stream) == [stream EXCEPT !.base = 16]

\* ss_perf_map << "/tmp/perf-" << getpid() << ".map"
PerfMapPath(pid) == StreamStr(StreamInt(StreamStr(NewStream, "/tmp/perf-"), pid), ".map").buffer

TmpPerfMapPath(pid) == Append(PerfMapPath(pid), ".tmp")

\* tmp_perf_map_file << std::hex << addr << " " << size << " " << symbol << "\n"
WriteEntry(stream, entry) ==
    StreamStr(StreamStr(StreamStr(StreamInt(StreamStr(StreamInt(StreamHex(stream),
        entry.addr), " "), entry.size), " "), entry.symbol), "\n")

\* Entries of size zero taken for the only ones left out.
SkippedZeroSize(entry) == entry.size = 0

\* The entries processPerfMap leaves out.
Skipped(entry) == entry.size = 0 \/ entry.addr = 0

PerfMapEntry(symbol, addr, size) == [symbol |-> symbol, addr |-> addr, size |-> size]

\* The check of ee_ under the mutex that was never made.
AlreadyInitialisedNever(ee) == FALSE

\* LazyInitJIT: if (ee_) return;
AlreadyInitialised(ee) == ee # NullPtr

\* What the read of ee_ outside the mutex may yield while another thread may
\* be writing it: the value written, or the null pointer it held before.
RacyRead(ee) == {ee, NullPtr}

GetFunctionAddr(n, name) ==
    IF \E i \in DOMAIN n.mptr_.functions : n.mptr_.functions[i] = name
    THEN [addr_of |-> name, engine |-> n.ee_.id]
    ELSE NullPtr

\* The string at the address of a global variable, NullPtr if there is none.
GetGlobalAddr(n, name) ==
    LET hits == SelectSeq(n.mptr_.globals, LAMBDA g : g.name = name)
    IN  IF hits = <<>> THEN NullPtr ELSE hits[1].val[1]

\* The symbols the listener is told of when the engine loads the module's
\* object.
Symbols ==
    {PerfMapEntry("f", 26, 16), PerfMapEntry("g", 0, 7), PerfMapEntry("h", 255, 0),
     PerfMapEntry("k", 4096, 7)}

PerfInputs == UNION {[1..n -> Symbols] : n \in 0..MaxSymbols}

Names == {"__tvm_is_system_module", "__tvm_main__", "g", "nosuch"}

Idle == [pc |-> "idle", name |-> "", calls |-> 0, result |-> NullPtr]

\* The record j of the engine's side with the steps `whats` of the member
\* function `by` added to the steps taken so far.
Logged(j, whats, by) ==
    [j EXCEPT !.events = @ \o [i \in 1..Len(whats) |-> [what |-> whats[i], by |-> by]]]

\* builder.selectTarget(): the machine for the triple of the module the
\* builder holds, with the CPU and the attributes of the target string.
SelectTarget(n) ==
    [ParseLLVMTargetOptions(n.target_) EXCEPT !.triple = n.mptr_.triple]

ArchMismatch(n) == ArchOf(HostTriple) # ArchOf(SelectTarget(n).triple)

LayoutMismatch(n) == LayoutOf(SelectTarget(n).triple) # n.mptr_.layout

\* A fatal error inside LazyInitJIT: the exception leaves GetFunction, the
\* lock_guard lets go of the mutex and the builder is destroyed with the
\* module it was given; `steps` are the steps taken up to the error.
InitFailed(t, steps) ==
    /\ node' = [node EXCEPT !.module_ = "freed"]
    /\ jit' = Logged(jit, steps, "LazyInitJIT")
    /\ threads' = [threads EXCEPT ![t].pc = "idle",
                                  ![t].calls = @ + 1,
                                  ![t].result = [error |-> steps[Len(steps)]]]

\* The process ends: no thread takes another step.
Crashed ==
    /\ threads' = [u \in Threads |-> [threads[u] EXCEPT !.pc = "crashed"]]
    /\ jit' = [jit EXCEPT !.life = "crashed"]

\* The checks have passed and builder.create() has made the engine.
EngineCreated(t) ==
    /\ node' = [node EXCEPT !.mutex_ = t,
                            !.module_ = "moved",
                            !.ee_ = [id |-> jit.engines + 1, options |-> SelectTarget(node)]]
    /\ jit' = [Logged(jit, <<"architecture checked", "data layout checked", "engine created">>,
                      "LazyInitJIT")
                 EXCEPT !.engines = @ + 1]
    /\ threads' = [threads EXCEPT ![t].pc = "constructors"]

\* What LazyInitJIT can come to when an earlier, failed call has left
\* mptr_ pointing at a module that is destroyed and module_ empty: a fatal
\* error at one of the checks or at the creation, or the end of the process.
UseAfterFree == {"fatal", "crash"}

\* What notifying the perf listener can come to: it is an object on the
\* stack of LazyInitJIT, gone once that has returned.
NotifyListener(listener) ==
    IF listener = "dangling" THEN {"returned", "crash"} ELSE {"returned"}

InitJIT ==
    /\ NoCompiler
    /\ node = InitModule(NewLLVMModuleNode, <<"f", "g">>, <<"llvm", "-mcpu=core-avx2">>)
    /\ loaded = NewLLVMModuleNode
    /\ threads = [t \in Threads |-> Idle]
    /\ fs = EmptyMap
    /\ \E objects \in PerfInputs :
          jit = [objects |-> objects, pid |-> 4242, engines |-> 0, constructors |-> 0,
                 perf_maps |-> 0, init_done |-> FALSE, perf_map |-> <<>>, next |-> 1,
                 stream |-> NewStream, events |-> <<>>, listener |-> "none",
                 life |-> "alive"]

\* GetFunction up to its read of ee_.
GetFunction(t) ==
    /\ jit.life = "alive"
    /\ threads[t].pc = "idle"
    /\ threads[t].calls < MaxCalls
    /\ \E name \in Names :
          IF name = "__tvm_is_system_module"
          THEN threads' = [threads EXCEPT ![t].name = name,
                              ![t].calls = @ + 1,
                              ![t].result = [flag |-> GetFunctionAddr(node, "__tvm_module_startup")
                                                      # NullPtr]]
          ELSE \E ee \in RacyRead(node.ee_) :
                  threads' = [threads EXCEPT ![t].name = name,
                                 ![t].pc = IF ee = NullPtr THEN "LazyInitJIT" ELSE "lock"]
    /\ UNCHANGED <<compiler_vars, node, loaded, fs, jit>>

\* LazyInitJIT from taking the mutex to the creation of the engine.
LazyInitJIT(t) ==
    /\ threads[t].pc = "LazyInitJIT"
    /\ node.mutex_ = 0
    /\ IF AlreadyInitialised(node.ee_)
       THEN /\ threads' = [threads EXCEPT ![t].pc = "lock"]
            /\ UNCHANGED <<node, jit>>
       ELSE IF node.module_ = "freed"
       THEN \E outcome \in UseAfterFree :
               IF outcome = "fatal"
               THEN InitFailed(t, <<"module used after it was destroyed">>)
               ELSE Crashed /\ UNCHANGED node
       ELSE IF ArchMismatch(node)
       THEN InitFailed(t, <<"architecture mismatch">>)
       ELSE IF LayoutMismatch(node)
       THEN InitFailed(t, <<"architecture checked", "data layout mismatch">>)
       ELSE EngineCreated(t)
    /\ UNCHANGED <<compiler_vars, loaded, fs>>

\* The listener is registered, the static constructors run and the entry
\* function's name is read from the module; the listener is told of the
\* symbols of the object the engine emits on the way.
RunConstructors(t) ==
    /\ threads[t].pc = "constructors"
    /\ jit' = [Logged(jit, <<"static constructors">>, "LazyInitJIT")
                 EXCEPT !.constructors = @ + 1, !.perf_map = jit.objects,
                        !.listener = "registered"]
    /\ node' = [node EXCEPT !.entry_func_ = GetGlobalAddr(node, "__tvm_main__")]
    /\ threads' = [threads EXCEPT ![t].pc = "processPerfMap"]
    /\ UNCHANGED <<compiler_vars, loaded, fs>>

\* processPerfMap: the temporary file is opened and truncated.
PerfOpen(t) ==
    /\ threads[t].pc = "processPerfMap"
    /\ fs' = WriteFile(fs, TmpPerfMapPath(jit.pid), <<>>)
    /\ jit' = [jit EXCEPT !.stream = [NewStream EXCEPT !.open = TRUE], !.next = 1]
    /\ threads' = [threads EXCEPT ![t].pc = "perf_loop"]
    /\ UNCHANGED <<compiler_vars, node, loaded>>

\* processPerfMap: one round of the loop over the entries.
PerfWrite(t) ==
    /\ threads[t].pc = "perf_loop"
    /\ jit.next <= Len(jit.perf_map)
    /\ jit' = [jit EXCEPT !.next = @ + 1,
                          !.stream = IF Skipped(jit.perf_map[jit.next])
                                     THEN @
                                     ELSE WriteEntry(@, jit.perf_map[jit.next])]
    /\ UNCHANGED <<compiler_vars, node, loaded, threads, fs>>

\* processPerfMap: close() writes what the stream holds.
PerfClose(t) ==
    /\ threads[t].pc = "perf_loop"
    /\ jit.next > Len(jit.perf_map)
    /\ fs' = WriteFile(fs, TmpPerfMapPath(jit.pid),
                       fs[TmpPerfMapPath(jit.pid)] \o jit.stream.buffer)
    /\ jit' = [jit EXCEPT !.stream = [@ EXCEPT !.open = FALSE, !.buffer = <<>>]]
    /\ threads' = [threads EXCEPT ![t].pc = "rename"]
    /\ UNCHANGED <<compiler_vars, node, loaded>>

\* processPerfMap: std::rename.
PerfRename(t) ==
    /\ threads[t].pc = "rename"
    /\ fs' = [x \in (DOMAIN fs \ {TmpPerfMapPath(jit.pid)}) \cup {PerfMapPath(jit.pid)} |->
                 IF x = PerfMapPath(jit.pid) THEN fs[TmpPerfMapPath(jit.pid)] ELSE fs[x]]
    /\ jit' = [jit EXCEPT !.perf_maps = @ + 1]
    /\ threads' = [threads EXCEPT ![t].pc = "init_context"]
    /\ UNCHANGED <<compiler_vars, node, loaded>>

\* The rest of LazyInitJIT: the context address and functions; the
\* lock_guard lets go of the mutex.
InitContext(t) ==
    /\ threads[t].pc = "init_context"
    /\ jit' = [jit EXCEPT !.init_done = TRUE, !.listener = "dangling"]
    /\ node' = [node EXCEPT !.mutex_ = 0]
    /\ threads' = [threads EXCEPT ![t].pc = "lock"]
    /\ UNCHANGED <<compiler_vars, loaded, fs>>

\* GetFunction: std::lock_guard<std::mutex> lock(mutex_).
Lock(t) ==
    /\ threads[t].pc = "lock"
    /\ node.mutex_ = 0
    /\ node' = [node EXCEPT !.mutex_ = t]
    /\ threads' = [threads EXCEPT ![t].pc = "resolve"]
    /\ UNCHANGED <<compiler_vars, loaded, fs, jit>>

\* GetFunction: the address is looked up and the call returns.
Resolve(t) ==
    /\ threads[t].pc = "resolve"
    /\ threads' = [threads EXCEPT
                      ![t].pc = "idle",
                      ![t].calls = @ + 1,
                      ![t].result = GetFunctionAddr(node,
                                        IF threads[t].name = "__tvm_main__"
                                        THEN node.entry_func_ ELSE threads[t].name)]
    /\ node' = [node EXCEPT !.mutex_ = 0]
    /\ UNCHANGED <<compiler_vars, loaded, fs, jit>>

NextJIT ==
    \/ \E t \in Threads : GetFunction(t)
    \/ \E t \in Threads : LazyInitJIT(t)
    \/ \E t \in Threads : RunConstructors(t)
    \/ \E t \in Threads : PerfOpen(t)
    \/ \E t \in Threads : PerfWrite(t)
    \/ \E t \in Threads : PerfClose(t)
    \/ \E t \in Threads : PerfRename(t)
    \/ \E t \in Threads : InitContext(t)
    \/ \E t \in Threads : Lock(t)
    \/ \E t \in Threads : Resolve(t)

SpecJIT == InitJIT /\ [][NextJIT]_vars

(***************************************************************************)
(* The lifetime of a codegen module: made by build_llvm or loadfile_ll,    *)
(* used through get_function and destroyed when the last reference to it   *)
(* is dropped, which no call in progress allows.                           *)
(***************************************************************************)
\* The destructor taken to run the engine's part with or without an engine.
HasEngineAlways(ee) == TRUE

\* ~LLVMModuleNode: if (ee_ != nullptr)
HasEngine(ee) == ee # NullPtr

\* An IR file of the host's architecture with another data layout.
ForeignLayoutIR ==
    PrintIR([triple |-> "x86_64-linux-gnu", layout |-> "e-p:32:32", functions |-> <<"k">>,
             globals |-> <<>>, flags |-> <<>>])

\* The modules whose lifetime is followed: built for the host and for
\* another architecture, loaded from a saved module and from foreign files.
LifetimeNodes ==
    {InitModule(NewLLVMModuleNode, <<"f", "g">>, target) :
        target \in {<<"llvm", "-mcpu=core-avx2">>,
                    <<"llvm", "-target", "armv7l-linux-gnueabihf", "-mcpu=cortex-a53",
                      "-mattr=+neon">>}}
    \cup {LoadIR(NewLLVMModuleNode, text) :
            text \in {ForeignIR, ForeignLayoutIR,
                      PrintIR(InitModule(NewLLVMModuleNode, <<"f", "g">>, <<"llvm">>).mptr_)}}

InitLifetime ==
    /\ NoCompiler
    /\ node \in LifetimeNodes
    /\ loaded = NewLLVMModuleNode
    /\ threads = [t \in Threads |-> Idle]
    /\ fs = EmptyMap
    /\ jit = [objects |-> <<PerfMapEntry("f", 26, 16)>>, pid |-> 4242, engines |-> 0,
              constructors |-> 0, perf_maps |-> 0, init_done |-> FALSE, perf_map |-> <<>>,
              next |-> 1, stream |-> NewStream, events |-> <<>>, listener |-> "none",
              life |-> "alive"]

\* ~LLVMModuleNode: module_.reset() and the test of ee_.
DestroyModule ==
    /\ jit.life = "alive"
    /\ \A t \in Threads : threads[t].pc = "idle"
    /\ node' = [node EXCEPT !.module_ = IF @ = "owned" THEN "freed" ELSE @]
    /\ jit' = [Logged(jit, <<"module_ reset">>, "~LLVMModuleNode")
                 EXCEPT !.life = IF HasEngine(node.ee_) THEN "destructors" ELSE "destroyed"]
    /\ UNCHANGED <<compiler_vars, loaded, threads, fs>>

\* ~LLVMModuleNode: ee_->runStaticConstructorsDestructors(true).
RunDestructors ==
    /\ jit.life = "destructors"
    /\ jit' = [Logged(jit, <<"static destructors">>, "~LLVMModuleNode")
                 EXCEPT !.life = "delete"]
    /\ UNCHANGED <<compiler_vars, node, loaded, threads, fs>>

\* ~LLVMModuleNode: delete ee_; the engine tells its listeners of the
\* objects it frees.
DeleteEngine ==
    /\ jit.life = "delete"
    /\ \E outcome \in NotifyListener(jit.listener) :
          IF outcome = "crash"
          THEN Crashed
          ELSE /\ jit' = [Logged(jit, <<"engine released">>, "~LLVMModuleNode")
                            EXCEPT !.life = "destroyed"]
               /\ UNCHANGED threads
    /\ UNCHANGED <<compiler_vars, node, loaded, fs>>

NextLifetime ==
    \/ NextJIT
    \/ DestroyModule
    \/ RunDestructors
    \/ DeleteEngine

SpecLifetime == InitLifetime /\ [][NextLifetime]_vars

(***************************************************************************)
(* What the claims speak of.                                               *)
(***************************************************************************)
\* The register operands of an instruction.
Registers(instr) ==
    CASE instr.op = "LoadConst" -> {instr.dst}
      [] instr.op = "AllocTensor" -> {instr.shape_register, instr.dst}
      [] instr.op = "AllocDatatype" -> Range(instr.fields) \cup {instr.dst}
      [] instr.op = "AllocClosure" -> Range(instr.free_vars) \cup {instr.dst}
      [] instr.op = "GetField" -> {instr.object, instr.dst}
      [] instr.op = "Invoke" -> Range(instr.args) \cup {instr.dst}
      [] instr.op = "InvokeClosure" -> {instr.closure, instr.dst} \cup Range(instr.args)
      [] instr.op = "InvokePacked" -> Range(instr.packed_args)
      [] instr.op = "Select" -> {instr.cond, instr.op1, instr.op2, instr.dst}
      [] instr.op = "If" -> {instr.cond}
      [] instr.op = "Ret" -> {instr.result}
      [] OTHER -> {}

\* The functions CompileFunc has returned so far: i is the place of the
\* function in the module's iteration order.
Compiled == {i \in 1..it : pc # "aborted" /\ vm.functions[context.global_map[mod[i].gvar] + 1] # NullObject}

VMFunc(i) == vm.functions[context.global_map[mod[i].gvar] + 1]

\* The instruction at the (0-based) position p of a compiled function.
At(i, p) == VMFunc(i).instructions[p + 1]

InBounds(i, p) == 0 <= p /\ p < Len(VMFunc(i).instructions)

\* C1: every register operand of every instruction of a compiled function,
\* the final Ret's included, is >= 0 and < the function's register count.
C1_RegistersInRange ==
    \A i \in Compiled : \A j \in DOMAIN VMFunc(i).instructions :
        \A r \in Registers(VMFunc(i).instructions[j]) :
            0 <= r /\ r < VMFunc(i).register_file_size

\* The positions of the If instructions of a compiled function.
IfPositions(i) == {p \in 0..(Len(VMFunc(i).instructions) - 1) : At(i, p).op = "If"}

\* C2 as stated: both targets of an If are in bounds, and the instruction
\* before the false target is a Goto whose offset is one more than the
\* number of instructions of the true branch.
C2_GotoSkipsTrueBranch ==
    \A i \in Compiled : \A p \in IfPositions(i) :
        LET t == At(i, p).true_offset
            f == At(i, p).false_offset
        IN  /\ InBounds(i, p + t) /\ InBounds(i, p + f)
            /\ At(i, p + f - 1).op = "Goto"
            /\ At(i, p + f - 1).pc_offset = ((p + f - 1) - (p + t)) + 1

\* C2 as amended: both targets of an If are in bounds, the instruction before
\* the false target is a Goto, and that Goto's offset is one more than the
\* number of instructions of the false branch: it lands on the If's Select.
C2_GotoSkipsFalseBranch ==
    \A i \in Compiled : \A p \in IfPositions(i) :
        LET t == At(i, p).true_offset
            f == At(i, p).false_offset
            goto == At(i, p + f - 1)
        IN  /\ InBounds(i, p + t) /\ InBounds(i, p + f)
            /\ goto.op = "Goto"
            /\ \E e \in Range(compilers[i].if_log) :
                  /\ e.if_pc = p
                  /\ e.after_true = p + f
                  /\ goto.pc_offset = (e.after_false - e.after_true) + 1
                  /\ (p + f - 1) + goto.pc_offset = e.after_false
            /\ InBounds(i, (p + f - 1) + goto.pc_offset)
            /\ At(i, (p + f - 1) + goto.pc_offset).op = "Select"
            /\ At(i, (p + f - 1) + goto.pc_offset).cond = At(i, p).cond

\* An If nested in a branch of another If, with branches of different
\* lengths, has been compiled.
C2_Witness ==
    \E i \in Compiled : \E e1, e2 \in Range(compilers[i].if_log) :
        /\ e1.if_pc < e2.if_pc /\ e2.after_false <= e1.after_false
        /\ e2.after_false - e2.after_true # e2.goto_pc - e2.if_pc - 1
        /\ e1.after_false - e1.after_true # e1.goto_pc - e1.if_pc - 1

\* C3 as stated: with p0 the position of the If, p1 the position of the Goto
\* placeholder and p2 the position reached after the false branch, the
\* patched values are true_offset = 1, false_offset = p1 - p0 and
\* pc_offset = (p2 - p1) + 1.
C3_PatchAsStated ==
    \A i \in Compiled : \A e \in Range(compilers[i].if_log) :
        LET p0 == e.if_pc
            p1 == e.goto_pc
            p2 == e.after_false
        IN  /\ At(i, p0).op = "If" /\ At(i, p1).op = "Goto"
            /\ At(i, p0).true_offset = 1
            /\ At(i, p0).false_offset = p1 - p0
            /\ At(i, p1).pc_offset = (p2 - p1) + 1

\* C3 as amended: the patched values are true_offset = 1,
\* false_offset = (p1 - p0) + 1 (the first position after the Goto) and
\* pc_offset = p2 - p1 (the position reached after the false branch).
C3_Patch ==
    \A i \in Compiled : \A e \in Range(compilers[i].if_log) :
        LET p0 == e.if_pc
            p1 == e.goto_pc
            p2 == e.after_false
        IN  /\ At(i, p0).op = "If" /\ At(i, p1).op = "Goto"
            /\ At(i, p0).true_offset = 1
            /\ At(i, p0).false_offset = (p1 - p0) + 1
            /\ At(i, p1).pc_offset = p2 - p1

\* An If whose two branches both emit instructions has been lowered.
C3_Witness ==
    \E i \in Compiled : \E e \in Range(compilers[i].if_log) :
        e.goto_pc > e.if_pc + 1 /\ e.after_false > e.goto_pc + 1

\* fn(c, a, b) { if c then a else b }
IfThenElse == FunctionNode(<<0, 1, 2>>, IfNode(VarNode(0), VarNode(1), VarNode(2)))

\* C4 as stated: the function above compiles to If(0, 1, 2), Goto(2),
\* Select(0, 1, 2, 3), Ret(3) with 4 registers.
C4_AsStated ==
    \A i \in Compiled :
        mod[i].func = IfThenElse =>
            /\ VMFunc(i).instructions = <<If(0, 1, 2), Goto(2), Select(0, 1, 2, 3), Ret(3)>>
            /\ VMFunc(i).register_file_size = 4

\* C4 as amended: it compiles to If(0, 1, 2), Goto(1), Select(0, 1, 2, 3),
\* Ret(3) with 4 registers.
C4_IfThenElse ==
    \A i \in Compiled :
        mod[i].func = IfThenElse =>
            /\ VMFunc(i).instructions = <<If(0, 1, 2), Goto(1), Select(0, 1, 2, 3), Ret(3)>>
            /\ VMFunc(i).register_file_size = 4

C4_Witness == \E i \in Compiled : mod[i].func = IfThenElse /\ pc = "done"

\* C5: the indices of const_map and const_tensor_shape_map are pairwise
\* distinct and are together 0 .. n-1, n the number of entries of both;
\* vm.constants has n slots, none is assigned twice, and once the two fill
\* loops are over each has been assigned exactly once.
C5_ConstantSlots ==
    LET cm == context.const_map
        sm == context.const_tensor_shape_map
        n == Cardinality(DOMAIN cm) + Cardinality(DOMAIN sm)
    IN  /\ \A k1, k2 \in DOMAIN cm : cm[k1] = cm[k2] => k1 = k2
        /\ \A t1, t2 \in DOMAIN sm : sm[t1].index = sm[t2].index => t1 = t2
        /\ \A k \in DOMAIN cm : \A t \in DOMAIN sm : cm[k] # sm[t].index
        /\ {cm[k] : k \in DOMAIN cm} \cup {sm[t].index : t \in DOMAIN sm} = 0..(n - 1)
        /\ pc \in {"fill const_map", "fill const_tensor_shape_map", "compile", "global_map_", "done"} =>
              /\ Len(vm.constants) = n
              /\ \A slot \in 1..n : writes[slot] <= 1
        /\ pc \in {"compile", "global_map_", "done"} =>
              \A slot \in 1..n : writes[slot] = 1 /\ vm.constants[slot] # NullObject

\* A constant table with constants and shape tensors has been filled.
C5_Witness ==
    /\ pc = "done"
    /\ Cardinality(DOMAIN context.const_map) >= 2
    /\ Cardinality(DOMAIN context.const_tensor_shape_map) >= 2

\* The kernels of the primitive calls lowered so far, in the order lowered.
RECURSIVE Observed(_)
Observed(i) ==
    IF i = 0
    THEN <<>>
    ELSE Observed(i - 1) \o
         [j \in 1..Len(compilers[i].prim_log) |-> compilers[i].prim_log[j].kernel]

\* A sequence with every element's later occurrences dropped.
RECURSIVE FirstOccurrences(_)
FirstOccurrences(seq) ==
    IF seq = <<>>
    THEN <<>>
    ELSE LET front == FirstOccurrences(SubSeq(seq, 1, Len(seq) - 1))
             last == seq[Len(seq)]
         IN  IF last \in Range(front) THEN front ELSE Append(front, last)

\* C6: lowered_funcs holds no kernel twice and holds the kernels in the
\* order they were first seen; seen_funcs[k] is the position of k in it;
\* every InvokePacked emitted so far carries the index seen_funcs now gives
\* its kernel; and the packed-function table returned has one entry per
\* kernel, in that order, so that every packed_index is a valid index into it.
C6_Kernels ==
    LET lf == context.lowered_funcs
        sf == context.seen_funcs
    IN  pc # "aborted" =>
        /\ \A a, b \in DOMAIN lf : lf[a] = lf[b] => a = b
        /\ DOMAIN sf = Range(lf)
        /\ \A k \in DOMAIN sf : lf[sf[k] + 1] = k
        /\ lf = FirstOccurrences(Observed(it))
        /\ \A i \in Compiled :
              /\ \A e \in Range(compilers[i].prim_log) :
                    /\ At(i, e.invoke).op = "InvokePacked"
                    /\ At(i, e.invoke).packed_index = sf[e.kernel]
              /\ \A j \in DOMAIN VMFunc(i).instructions :
                    VMFunc(i).instructions[j].op = "InvokePacked" =>
                        /\ 0 <= VMFunc(i).instructions[j].packed_index
                        /\ VMFunc(i).instructions[j].packed_index < Len(lf)
                        /\ \E e \in Range(compilers[i].prim_log) : e.invoke = j - 1
        /\ pc \in {"global_map_", "done"} =>
              /\ Len(vm.packed_funcs) = Len(lf)
              /\ \A j \in DOMAIN lf : vm.packed_funcs[j].packed = lf[j].name

\* Two functions that call one kernel, and a second kernel, have been compiled.
C6_Witness ==
    /\ pc = "done"
    /\ Len(context.lowered_funcs) >= 2
    /\ \E i, j \in Compiled :
          /\ i # j
          /\ \E e1 \in Range(compilers[i].prim_log), e2 \in Range(compilers[j].prim_log) :
                e1.kernel = e2.kernel

\* C7: global_map gives the module's functions the indices 0 .. n-1 in
\* iteration order; every Invoke and AllocClosure carries global_map of the
\* global called, a valid index into the function table; AllocClosure is
\* emitted iff that global's function is a closure; and the function stored
\* at the index is the compiled form of that global.
C7_GlobalIndices ==
    pc \notin {"PopulateGlobalMap", "aborted"} =>
        /\ DOMAIN context.global_map = {mod[i].gvar : i \in DOMAIN mod}
        /\ \A i \in DOMAIN mod : context.global_map[mod[i].gvar] = i - 1
        /\ \A i \in Compiled :
              /\ VMFunc(i).name = mod[i].gvar
              /\ \A p \in 0..(Len(VMFunc(i).instructions) - 1) :
                    At(i, p).op \in {"Invoke", "AllocClosure"} =>
                        \E e \in Range(compilers[i].call_log) : e.pc = p
              /\ \A e \in Range(compilers[i].call_log) :
                    LET instr == At(i, e.pc)
                        target == Lookup(mod, e.g)
                    IN  /\ instr.op = IF IsClosure(target) THEN "AllocClosure" ELSE "Invoke"
                        /\ instr.func_index = context.global_map[e.g]
                        /\ 0 <= instr.func_index /\ instr.func_index < Len(vm.functions)
                        /\ pc = "done" =>
                              /\ vm.functions[instr.func_index + 1].name = e.g
                              /\ vm.functions[instr.func_index + 1].params =
                                    Len(target.params)
                                    + IF IsClosure(target) THEN Len(target.body.params) ELSE 0

\* A function that calls the closure stored after it, and one that calls the
\* plain function stored before it, have been compiled.
C7_Witness ==
    /\ pc = "done"
    /\ \E i \in Compiled : \E e \in Range(compilers[i].call_log) :
          /\ e.g # mod[i].gvar
          /\ At(i, e.pc).func_index = 1
          /\ At(i, e.pc).op = "AllocClosure"

\* C8: a later call of CompileModule on the same module returns the program
\* the earlier calls returned: the same functions, constant table, packed
\* functions and global indices.
C8_Deterministic ==
    run > 1 =>
        /\ pc # "aborted"
        /\ pc = "done" => \A r \in 1..(run - 1) : prev[r] = vm

\* The register a parameter list gives each of its variables, counted from `first`.
ParamRegisters(params, first) ==
    [v \in Range(params) |-> first + (CHOOSE j \in DOMAIN params : params[j] = v) - 1]

\* The lowering of `body` by a compiler that starts with the bindings `binding`.
LoweringUnder(binding, body, undef) ==
    LET start == [NewVMCompiler(context, engine, undef) EXCEPT
                     !.var_register_map = binding,
                     !.registers_num = Cardinality(DOMAIN binding)]
        end == VisitExpr(start, body)
    IN  Append(end.instructions, Ret(end.last_register))

\* C9: a closure binds its inner parameters to registers 0 .. m-1 and its
\* outer parameters to m .. m+k-1, lowers the inner body, and stores m + k
\* as parameter count; another function binds its n parameters to 0 .. n-1,
\* lowers its body and stores n.
C9_ParameterRegisters ==
    \A i \in Compiled :
        LET func == mod[i].func
            map == compilers[i].var_register_map
        IN  IF IsClosure(func)
            THEN LET inner == func.body.params
                     outer == func.params
                     m == Len(inner)
                     k == Len(outer)
                 IN  /\ \A j \in 1..m : map[inner[j]] = j - 1
                     /\ \A j \in 1..k : map[outer[j]] = m + j - 1
                     /\ VMFunc(i).params = m + k
                     /\ \E undef \in Undefined :
                           VMFunc(i).instructions =
                               LoweringUnder(ParamRegisters(inner, 0) @@ ParamRegisters(outer, m),
                                             func.body.body, undef)
            ELSE /\ \A j \in 1..Len(func.params) : map[func.params[j]] = j - 1
                 /\ VMFunc(i).params = Len(func.params)
                 /\ \E undef \in Undefined :
                       VMFunc(i).instructions =
                           LoweringUnder(ParamRegisters(func.params, 0), func.body, undef)

\* A closure with two captured and two inner parameters whose body uses
\* both kinds has been compiled.
C9_Witness ==
    \E i \in Compiled :
        /\ IsClosure(mod[i].func)
        /\ Len(mod[i].func.params) = 2
        /\ Len(mod[i].func.body.params) = 2
        /\ Len(compilers[i].prim_log) = 1

\* The output tensor types of a primitive call, in field order.
Outputs(ret_type) == IF ret_type.k = "TensorType" THEN <<ret_type>> ELSE ret_type.fields

ShapeIndex(ttype) == context.const_tensor_shape_map[ttype.id].index

\* The LoadConst at position lc and the AllocTensor at position at are those
\* of the output type ttype.
IsAllocPair(i, lc, at, ttype) ==
    /\ InBounds(i, lc) /\ InBounds(i, at)
    /\ At(i, lc).op = "LoadConst"
    /\ At(i, lc).const_index = ShapeIndex(ttype)
    /\ At(i, at).op = "AllocTensor"
    /\ At(i, at).shape_register = At(i, lc).dst
    /\ At(i, at).dtype = ttype.dtype

\* C10 as stated: the outputs' instructions are consecutive
\* LoadConst + AllocTensor pairs, one pair per output in field order.
C10_ConsecutivePairs ==
    \A i \in Compiled : \A e \in Range(compilers[i].prim_log) :
        LET outs == Outputs(e.ret_type)
        IN  \A j \in 1..Len(outs) :
                IsAllocPair(i, e.start + 2 * (j - 1), e.start + 2 * (j - 1) + 1, outs[j])

\* C10 as amended: the r LoadConsts of the outputs come first, in field
\* order, then the r AllocTensors, in field order, then the InvokePacked;
\* each AllocTensor's shape register is the dst of the LoadConst of the same
\* output (which is the instruction directly before it only when r = 1).
C10_LoadsThenAllocs ==
    \A i \in Compiled : \A e \in Range(compilers[i].prim_log) :
        LET outs == Outputs(e.ret_type)
            r == Len(outs)
        IN  /\ \A j \in 1..r : IsAllocPair(i, e.start + (j - 1), e.start + r + (j - 1), outs[j])
            /\ e.invoke = e.start + 2 * r
            /\ At(i, e.invoke).op = "InvokePacked"

\* A primitive call with two outputs of different types has been lowered.
C10_Witness ==
    \E i \in Compiled : \E e \in Range(compilers[i].prim_log) :
        /\ e.ret_type.k = "TupleType"
        /\ Len(e.ret_type.fields) = 2
        /\ e.ret_type.fields[1] # e.ret_type.fields[2]

\* The number of tensors a list of kernel parameter types flattens to.
RECURSIVE NumInputs(_)
NumInputs(ptypes) ==
    IF ptypes = <<>>
    THEN 0
    ELSE (IF Head(ptypes).k = "TupleType" THEN Len(Head(ptypes).fields) ELSE 1)
         + NumInputs(Tail(ptypes))

\* The position, among the flattened inputs, of field f (from 0) of parameter j (from 1).
InputPosition(ptypes, j, f) == NumInputs(SubSeq(ptypes, 1, j - 1)) + f + 1

\* The primitive calls lowered in function i.
PrimCalls(i) == Range(compilers[i].prim_log)

\* The operands of the InvokePacked of the primitive call e of function i
\* are its flattened inputs, in parameter and field order, then its outputs.
OperandsInOrder(i, e) ==
    LET instr == At(i, e.invoke)
        ptypes == e.func.params
        in == NumInputs(ptypes)
        outs == Outputs(e.ret_type)
    IN  /\ \A j \in DOMAIN ptypes :
              IF ptypes[j].k = "TupleType"
              THEN \A f \in 0..(Len(ptypes[j].fields) - 1) :
                      LET get == At(i, e.entry + InputPosition(ptypes, j, f) - j)
                      IN  /\ get.op = "GetField"
                          /\ get.object = e.args[j] /\ get.field_index = f
                          /\ instr.packed_args[InputPosition(ptypes, j, f)] = get.dst
              ELSE instr.packed_args[InputPosition(ptypes, j, 0)] = e.args[j]
        /\ \A j \in DOMAIN outs :
              /\ At(i, e.before_allocs + j - 1).op = "AllocTensor"
              /\ instr.packed_args[in + j] = At(i, e.before_allocs + j - 1).dst

\* C11: every InvokePacked has exactly `arity` operands, arity the number of
\* flattened tensor inputs plus the number of outputs and at least 1,
\* output_size the number of outputs, the inputs first and the output
\* registers last, so that the operand at position arity - 1 is an output.
C11_InvokePackedOperands ==
    \A i \in Compiled : \A e \in PrimCalls(i) :
        LET instr == At(i, e.invoke)
            in == NumInputs(e.func.params)
            out == Len(Outputs(e.ret_type))
        IN  /\ instr.op = "InvokePacked"
            /\ Len(instr.packed_args) = instr.arity
            /\ instr.arity = in + out
            /\ instr.output_size = out
            /\ OperandsInOrder(i, e)
            /\ instr.arity >= 1
            /\ out >= 1

\* What of C11 the code does keep: the operand count and order.
C11_OperandLayout ==
    \A i \in Compiled : \A e \in PrimCalls(i) :
        LET instr == At(i, e.invoke)
        IN  /\ instr.op = "InvokePacked"
            /\ Len(instr.packed_args) = instr.arity
            /\ instr.arity = NumInputs(e.func.params) + Len(Outputs(e.ret_type))
            /\ instr.output_size = Len(Outputs(e.ret_type))
            /\ OperandsInOrder(i, e)

\* A kernel of no inputs and no outputs has been called: the operand array is empty.
C11_EmptyOperands ==
    \E i \in Compiled : \E e \in PrimCalls(i) : At(i, e.invoke).arity = 0

\* The register operands and dsts of the instructions of function i before position p.
RegistersBefore(i, p) ==
    UNION {Registers(VMFunc(i).instructions[q]) : q \in 1..p}

\* C12: after a primitive call with r >= 1 outputs, last_register is the
\* register of the call's value: for r = 1 the dst of the output's
\* AllocTensor, the InvokePacked being the call's last instruction; for
\* r > 1 the dst of an AllocDatatype(0, r, output registers in field order,
\* dst) emitted directly after the InvokePacked, a register nothing before
\* it names.
C12_ResultRegister ==
    \A i \in Compiled : \A e \in PrimCalls(i) :
        LET outs == Outputs(e.ret_type)
            r == Len(outs)
            dsts == [j \in 1..r |-> At(i, e.before_allocs + j - 1).dst]
        IN  /\ r = 1 =>
                  /\ e.end = e.invoke + 1
                  /\ At(i, e.before_allocs).op = "AllocTensor"
                  /\ e.result = dsts[1]
            /\ r > 1 =>
                  /\ e.end = e.invoke + 2
                  /\ \A j \in 1..r : At(i, e.before_allocs + j - 1).op = "AllocTensor"
                  /\ At(i, e.invoke + 1) = AllocDatatype(0, r, dsts, e.result)
                  /\ e.result \notin RegistersBefore(i, e.invoke + 1)
                  /\ e.result >= VMFunc(i).params

\* A call with one output and a call with two outputs have been lowered in
\* one function, the second taking the first's value.
C12_Witness ==
    \E i \in Compiled : \E e1, e2 \in PrimCalls(i) :
        /\ Len(Outputs(e1.ret_type)) = 1
        /\ Len(Outputs(e2.ret_type)) = 2
        /\ e1.end <= e2.entry
        /\ e1.result \in Range(e2.args)

\* The lowering of `Let v = value in body` the claim describes, from the
\* compiler state `start`: value is lowered, v names the register of its
\* result from then on, body is lowered.
LetAsBinding(start, let_node) ==
    LET c1 == VisitExpr(start, let_node.value)
        bound == [c1 EXCEPT !.var_register_map =
                     [x \in DOMAIN @ \cup {let_node.var} |->
                         IF x = let_node.var THEN c1.last_register ELSE @[x]]]
        end == VisitExpr(bound, let_node.body)
    IN  Append(end.instructions, Ret(end.last_register))

\* A compiler that has bound the parameters of a function that is no closure.
AfterParams(func, undef) ==
    [NewVMCompiler(context, engine, undef) EXCEPT
        !.var_register_map = ParamRegisters(func.params, 0),
        !.registers_num = Len(func.params)]

\* C13: a function whose body is `Let v = value in body` consists of the
\* instructions of value, then those of body with every reference to v
\* resolved to the register of value's result, whatever v was bound to
\* before; no Move is emitted.
C13_LetBindsValue ==
    \A i \in Compiled :
        LET func == mod[i].func
        IN  /\ \A q \in DOMAIN VMFunc(i).instructions : VMFunc(i).instructions[q].op # "Move"
            /\ (~IsClosure(func) /\ func.body.k = "Let") =>
                  \E undef \in Undefined :
                      VMFunc(i).instructions = LetAsBinding(AfterParams(func, undef), func.body)

\* What of C13 the code does keep: the same, for a variable that has no
\* binding once value has been lowered.
C13_LetBindsFreshVariable ==
    \A i \in Compiled :
        LET func == mod[i].func
        IN  (~IsClosure(func) /\ func.body.k = "Let") =>
                \E undef \in Undefined :
                    \/ func.body.var \in
                          DOMAIN VisitExpr(AfterParams(func, undef), func.body.value).var_register_map
                    \/ VMFunc(i).instructions = LetAsBinding(AfterParams(func, undef), func.body)

\* The registers of those arguments of a call that are variables agree with
\* `regs`, the registers an instruction carries for the arguments.
ArgumentRegisters(i, call, regs) ==
    /\ Len(regs) = Len(call.args)
    /\ \A j \in DOMAIN call.args :
          call.args[j].k = "Var" => regs[j] = compilers[i].var_register_map[call.args[j].id]

\* The instructions of calls of closure globals and of calls through a
\* variable.  With `checked` the count of capture registers is compared
\* with the arity only at calls that give the closure exactly its captured
\* values, as a type-checked call does.
ClosureCalls(checked) ==
    \A i \in Compiled :
        /\ \A e \in Range(compilers[i].call_log) :
              LET target == Lookup(mod, e.g)
                  instr == At(i, e.pc)
              IN  IsClosure(target) =>
                      /\ instr.op = "AllocClosure"
                      /\ instr.arity = Len(target.params)
                      /\ instr.free_vars = e.args
                      /\ ArgumentRegisters(i, e.call, instr.free_vars)
                      /\ (checked => Len(e.call.args) = Len(target.params)) =>
                            Len(instr.free_vars) = instr.arity
        /\ \A e \in Range(compilers[i].closure_log) :
              LET instr == At(i, e.pc)
              IN  /\ instr.op = "InvokeClosure"
                  /\ instr.closure = compilers[i].var_register_map[e.call.op.id]
                  /\ instr.args = e.args
                  /\ ArgumentRegisters(i, e.call, instr.args)
                  /\ instr.dst \notin RegistersBefore(i, e.pc)
                  /\ instr.dst >= VMFunc(i).params
        /\ \A p \in 0..(Len(VMFunc(i).instructions) - 1) :
              At(i, p).op = "InvokeClosure" =>
                  \E e \in Range(compilers[i].closure_log) : e.pc = p

RECURSIVE Offence(_, _)
RECURSIVE OffenceEach(_, _)
OffenceEach(es, bound) ==
    IF es = <<>> THEN [bad |-> "none", bound |-> bound]
    ELSE LET first == Offence(Head(es), bound)
         IN  IF first.bad # "none" THEN first ELSE OffenceEach(Tail(es), first.bound)

Offence(e, bound) ==
    CASE e.k = "Var" ->
           [bad |-> IF e.id \in bound THEN "none" ELSE "Var", bound |-> bound]
      [] e.k = "Match" -> [bad |-> "Match", bound |-> bound]
      [] e.k = "GlobalVar" -> [bad |-> "GlobalVar", bound |-> bound]
      [] e.k = "Function" ->
           [bad |-> IF e.prim THEN "none" ELSE "Function", bound |-> bound]
      [] e.k = "Tuple" -> OffenceEach(e.fields, bound)
      [] e.k = "TupleGetItem" -> Offence(e.tuple, bound)
      [] e.k = "If" -> OffenceEach(<<e.cond, e.true_branch, e.false_branch>>, bound)
      [] e.k = "Let" ->
           LET value == Offence(e.value, bound)
           IN  IF value.bad # "none" THEN value
               ELSE Offence(e.body, value.bound \cup {e.var})
      [] e.k = "Call" ->
           LET args == OffenceEach(e.args, bound)
           IN  IF args.bad # "none" THEN args
               ELSE CASE e.op.k \in {"GlobalVar", "Constructor"} -> args
                      [] e.op.k \in {"Var", "Function"} -> Offence(e.op, args.bound)
                      [] OTHER -> [bad |-> "Call", bound |-> args.bound]
      [] OTHER -> [bad |-> "none", bound |-> bound]

\* The offence of a function of the module: of its body, or of the inner
\* function's body if it is a closure, with the parameters bound.
OffenceOf(func) ==
    IF IsClosure(func)
    THEN Offence(func.body.body, Range(func.params) \cup Range(func.body.params)).bad
    ELSE Offence(func.body, Range(func.params)).bad

\* C15: a module one of whose function bodies has a Match, a GlobalVar that
\* is no callee, a non-primitive Function literal, a Var without a register
\* or a Call of a callee that is no primitive function, global, constructor
\* or variable is never compiled to a program: no function with such a body
\* is compiled, CompileModule does not return, and once it has aborted
\* neither a program nor a context is left.
C15_OffenceAborts ==
    /\ \A i \in Compiled : OffenceOf(mod[i].func) = "none"
    /\ (\E i \in DOMAIN mod : OffenceOf(mod[i].func) # "none") =>
           pc \notin {"global_map_", "done"}
    /\ pc = "aborted" => vm = NewVirtualMachine /\ context = NewContext(mod)

\* The compilation of a module has been aborted at a variable that had no
\* register although the function before it was compiled.
C15_Witness ==
    /\ pc = "aborted"
    /\ it > 1
    /\ \E i \in DOMAIN mod : OffenceOf(mod[i].func) = "Var"

\* e has a Function literal that is not the callee of a Call.
RECURSIVE FunctionOutsideCallee(_)
FunctionOutsideCallee(e) ==
    CASE e.k = "Function" -> TRUE
      [] e.k = "Tuple" -> \E j \in DOMAIN e.fields : FunctionOutsideCallee(e.fields[j])
      [] e.k = "TupleGetItem" -> FunctionOutsideCallee(e.tuple)
      [] e.k = "If" -> \/ FunctionOutsideCallee(e.cond)
                       \/ FunctionOutsideCallee(e.true_branch)
                       \/ FunctionOutsideCallee(e.false_branch)
      [] e.k = "Let" -> FunctionOutsideCallee(e.value) \/ FunctionOutsideCallee(e.body)
      [] e.k = "Call" -> \E j \in DOMAIN e.args : FunctionOutsideCallee(e.args[j])
      [] OTHER -> FALSE

\* The body that CompileFunc lowers: of the inner function for a closure.
LoweredBody(func) == IF IsClosure(func) THEN func.body.body ELSE func.body

\* C16: a Function literal, primitive or not, in any position but the
\* callee of a Call is rejected: no function whose body has one is compiled,
\* and a callee that is a Function literal is a primitive one.
C16_FunctionLiteralsRejected ==
    \A i \in Compiled :
        /\ ~FunctionOutsideCallee(LoweredBody(mod[i].func))
        /\ \A e \in PrimCalls(i) : e.func.k = "Function" /\ e.func.prim

\* Only the non-primitive literals are rejected.
C16_LocalFunctionsRejected ==
    \A i \in Compiled : OffenceOf(mod[i].func) # "Function"

RoundTripDone == loaded.mptr_ # NullPtr /\ jit.loaded_from = "module.ll"

\* C18: a module built with target string T, saved as textual IR and loaded
\* with load_ir has T as its target string, the one lazy JIT initialisation
\* parses the triple, the CPU and the attributes from, and the function
\* symbols of the original.
C18_RoundTrip ==
    RoundTripDone =>
        /\ loaded.target_ = node.target_
        /\ ParseLLVMTargetOptions(loaded.target_) = ParseLLVMTargetOptions(node.target_)
        /\ Range(loaded.mptr_.functions) = Range(node.mptr_.functions)

\* What the round trip does keep: the tvm_target flag, the target machine
\* made from it and the function symbols.
C18_FlagAndSymbols ==
    RoundTripDone =>
        /\ getModuleFlag(loaded.mptr_, "tvm_target").val = node.target_
        /\ loaded.tm_ = node.tm_
        /\ loaded.mptr_ = node.mptr_

\* The places of LazyInitJIT between the creation of the engine and its end.
InitPlaces == {"constructors", "processPerfMap", "perf_loop", "rename", "init_context"}

RECURSIVE PerfLines(_, _)
PerfLines(entries, size_base) ==
    IF entries = <<>>
    THEN <<>>
    ELSE ToBase(Head(entries).addr, 16) \o <<" ">> \o ToBase(Head(entries).size, size_base)
         \o <<" ", Head(entries).symbol, "\n">> \o PerfLines(Tail(entries), size_base)

Recorded == SelectSeq(jit.objects, LAMBDA e : e.size # 0 /\ e.addr # 0)

\* The canonical path holds nothing or the whole map, one line per recorded
\* symbol with a size and an address other than zero, in recording order;
\* it is the temporary file, closed and then renamed.
PerfMapWritten(size_base) ==
    /\ DOMAIN fs \subseteq {<<"/tmp/perf-", "4", "2", "4", "2", ".map">>,
                            <<"/tmp/perf-", "4", "2", "4", "2", ".map", ".tmp">>}
    /\ MapFind(fs, <<"/tmp/perf-", "4", "2", "4", "2", ".map">>) =>
          /\ fs[<<"/tmp/perf-", "4", "2", "4", "2", ".map">>] = PerfLines(Recorded, size_base)
          /\ ~jit.stream.open
          /\ jit.stream.buffer = <<>>
    /\ jit.stream.open => MapFind(fs, <<"/tmp/perf-", "4", "2", "4", "2", ".map", ".tmp">>)

\* C19 as stated: each line of the profiler map is
\* <address in hexadecimal> <size in decimal> <symbol name>.
C19_AsStated == PerfMapWritten(10)

\* C19: the profiler map has one line <address in hexadecimal> <size in
\* hexadecimal> <symbol name> for each recorded symbol with a size and an
\* address other than zero and for no other, in recording order; the lines
\* go to a temporary file that is closed before it is renamed onto
\* /tmp/perf-<pid>.map, which never holds a part of a map.
C19_PerfMap == PerfMapWritten(16)

\* A map has been written for two recorded symbols of which one is left
\* out and the other has a size of more than one digit.
C19_Witness ==
    /\ MapFind(fs, PerfMapPath(jit.pid))
    /\ Len(jit.objects) = 2
    /\ Len(Recorded) = 1
    /\ Recorded[1].size >= 10


\* The places in the steps taken so far where `what` was done.
StepsAt(what) == {i \in 1..Len(jit.events) : jit.events[i].what = what}

\* C21: over the lifetime of a codegen module the static constructors run
\* only inside LazyInitJIT, after the architecture check, the data-layout
\* check and the creation of the engine, in that order; the static
\* destructors run only inside the destructor, at most once, after module_
\* was reset and only when an engine was created, and exactly once when a
\* module with an engine has been destroyed; a module whose engine was never
\* created, never initialised or aborted at a mismatch, runs no destructors
\* and releases no engine.
C21_Lifetime ==
    /\ \A i \in StepsAt("static constructors") :
          /\ jit.events[i].by = "LazyInitJIT"
          /\ i > 3
          /\ jit.events[i - 3].what = "architecture checked"
          /\ jit.events[i - 2].what = "data layout checked"
          /\ jit.events[i - 1].what = "engine created"
          /\ \A r \in StepsAt("module_ reset") : i < r
    /\ \A i \in StepsAt("static destructors") :
          /\ jit.events[i].by = "~LLVMModuleNode"
          /\ node.ee_ # NullPtr
          /\ StepsAt("engine created") # {}
          /\ \E r \in StepsAt("module_ reset") : r < i
          /\ node.module_ # "owned"
    /\ \A i \in StepsAt("engine released") :
          \E d \in StepsAt("static destructors") : d < i
    /\ Cardinality(StepsAt("static destructors")) <= 1
    /\ Cardinality(StepsAt("module_ reset")) <= 1
    /\ (jit.life \in {"delete", "destroyed"} /\ node.ee_ # NullPtr)
          => Cardinality(StepsAt("static destructors")) = 1
    /\ (node.ee_ = NullPtr \/ StepsAt("engine created") = {})
          => /\ StepsAt("static constructors") = {}
             /\ StepsAt("static destructors") = {}
             /\ StepsAt("engine released") = {}
             /\ jit.life \notin {"destructors", "delete"}

\* A module that was initialised by a call and then destroyed: constructors,
\* reset, destructors and release have all happened.
C21_Witness ==
    /\ jit.life = "destroyed"
    /\ StepsAt("static constructors") # {}
    /\ StepsAt("module_ reset") # {}
    /\ Cardinality(StepsAt("static destructors")) = 1
    /\ StepsAt("engine released") # {}

============================================================================
